---- MODULE Spec2Model ----
(***************************************************************************)
(* chrome_chat_agent.py: the auto-responder loop, the echo guard and the   *)
(* text injection pipeline (cmd_tippe), run by two asyncio tasks (the      *)
(* foreground REPL "fg" and the background auto-responder "bg") against    *)
(* one browser page.  Texts are sequences of characters.  Time is counted   *)
(* in whole seconds, and a time stamp t is kept as its age time.time() - t *)
(* (up to the cooldown), which is all the code computes from it.           *)
(***************************************************************************)
EXTENDS Integers, Sequences, FiniteSets, TLC

\* ----------------------------------------------------------------- bounds
MaxFgCmds == 1
\* The longest content of the composer that a failed clearing leaves in place.
MaxComposerLen == 2

\* ------------------------------------------------------ program constants
AUTO_POLL_SECONDS == 3
ECHO_COOLDOWN_SEC == 10

WA == "web.whatsapp.com"
BUMBLE == "bumble.com"
EXAMPLE == "example.com"
Hosts == {WA, BUMBLE, EXAMPLE}

AUTO_DOMAINS == {WA, BUMBLE}
CHAT_DOMAINS == AUTO_DOMAINS

\* Python's None, for the optional strings and the page reference.
NoneVal == "<None>"
\* An absent (None) message text; every use of an optional text in the code
\* tests it for truth, which the empty string fails as None does.
NoText == <<>>

Tasks == {"fg", "bg"}

\* ------------------------------------------------------------------ texts
\* The texts the page and the collaborators supply.
HeaderNames == {"Alice"}
IncomingTexts == { <<"a">>, <<" ", "b">> }
ReplyTexts == { <<"a">>, <<>> }
FgTexts == { <<"a">>, <<"b", " ", "b">> }

\* A character str.strip() removes and String.prototype.trim() keeps, such as
\* the file separator U+001C.
FS == "<FS>"

\* str.isspace()
IsSpace(c) == c \in {" ", FS}

RECURSIVE LStrip(_)
LStrip(s) == IF s # <<>> /\ IsSpace(Head(s)) THEN LStrip(Tail(s)) ELSE s

RECURSIVE RStrip(_)
RStrip(s) ==
  IF s # <<>> /\ IsSpace(s[Len(s)]) THEN RStrip(SubSeq(s, 1, Len(s) - 1)) ELSE s

\* str.strip()
Strip(s) == LStrip(RStrip(s))

\* " ".join(txt.split()): runs of white space become one blank, none at the ends
RECURSIVE Collapse(_)
Collapse(s) ==
  IF Len(s) < 2 THEN s
  ELSE IF IsSpace(s[1]) /\ IsSpace(s[2]) THEN Collapse(Tail(s))
  ELSE <<Head(s)>> \o Collapse(Tail(s))

_normalize(txt) == Strip(Collapse(txt))

Contains(hay, needle) ==
  \E i \in 1..(Len(hay) - Len(needle) + 1) :
    SubSeq(hay, i, i + Len(needle) - 1) = needle

EndsWith(hay, needle) ==
  /\ Len(needle) <= Len(hay)
  /\ SubSeq(hay, Len(hay) - Len(needle) + 1, Len(hay)) = needle

\* _has_typed_text, on the text _current_text read back
_has_typed_text(expected, current_text) ==
  LET normalized_expected == _normalize(expected)
      current == _normalize(current_text)
  IN IF normalized_expected = <<>> THEN TRUE
     ELSE IF current = <<>> THEN FALSE
     ELSE Contains(current, normalized_expected) \/ EndsWith(current, normalized_expected)

\* ------------------------------------------------------------------- keys
_chat_storage_key(h, identity) ==
  LET ident == IF identity = NoneVal THEN "" ELSE identity
  IN IF h = "" THEN NoneVal
     ELSE IF ident # "" THEN h \o "::" \o ident
     ELSE h

\* dict.get(key, default) and dict[key] = value
DictGet(d, k, default) == IF k \in DOMAIN d THEN d[k] ELSE default
DictPut(d, k, v) == [x \in (DOMAIN d) \cup {k} |-> IF x = k THEN v ELSE d[x]]
EmptyDict == [x \in {} |-> NoText]

\* ------------------------------------------------------------------ state
VARIABLES
  host,                \* hostname of page.url
  header,              \* the conversation header's label, NoneVal when absent
  composerPresent,     \* the page shows a composer element
  composer,            \* the composer's content
  thread,              \* the open conversation: latest incoming, latest bubble
  AUTO_MODE,
  last_sent_text,
  last_sent_time,      \* as an age: time.time() - _last_sent_time
  last_sent_per_chat,  \* key -> <<text, age of the time stamp>>
  last_seen_messages,
  pc,                  \* each task's position
  page,                \* each task's local page reference
  timer,               \* seconds left of the background task's current sleep
  cyc,                 \* locals of the polling cycle
  tp,                  \* each task's cmd_tippe frame
  fgCount,             \* foreground commands taken from the queue
  doc,                 \* the document _find_dom_input is run on
  found,               \* what _find_dom_input returned
  marks,               \* the elements that carry data-__agent: <<frame, index>>
  walk,                \* collectCandidates: the roots, its call stack, acc and seen
  call,                \* one call of a helper function: its inputs and its result
  LOCK_TO_DOMAIN,      \* the configuration switch of the domain lock
  _LOCK_HOST           \* the host connect_chrome found the agent on

vars == <<host, header, composerPresent, composer, thread, AUTO_MODE,
          last_sent_text, last_sent_time, last_sent_per_chat, last_seen_messages,
          pc, page, timer, cyc, tp, fgCount, doc, found, marks, walk, call, LOCK_TO_DOMAIN, _LOCK_HOST>>

envVars == <<host, header, composerPresent>>
sentVars == <<last_sent_text, last_sent_time, last_sent_per_chat>>
lockVars == <<LOCK_TO_DOMAIN, _LOCK_HOST>>
scorerVars == <<doc, found, marks, walk, call, lockVars>>

EmptyThread == [lastIn |-> NoText, lastAny |-> NoText, lastAuthor |-> "none"]

NoFrame == [text |-> NoText, typed_ok |-> FALSE, ran |-> <<>>, sent |-> "none",
            result |-> "none", key |-> NoneVal]

\* A frame after cmd_tippe has returned: its locals are gone, what it did stays.
Returned(f, result) == [NoFrame EXCEPT !.sent = f.sent, !.result = result]

NoCycle == [chat_identity |-> NoneVal, chat_key |-> NoneVal, latest |-> NoText,
            reply |-> NoText, outcome |-> "none", fromSelf |-> FALSE,
            skipped |-> <<>>]

\* No document is looked at, and _find_dom_input has not run.
NoDoc == [frames |-> <<>>, handleOk |-> TRUE]
NotRun == [frame |-> 0, index |-> 0, via |-> "notrun"]
\* No helper function is called on its own.
NoCall == [fn |-> "none"]
\* No candidate collection is under way.
NoWalk == [roots |-> <<>>, stack |-> <<>>, acc |-> <<>>, seen |-> {}, visits |-> <<>>,
           started |-> FALSE]

\* Ages are counted up to the cooldown: older is not told apart.
AgeCap == ECHO_COOLDOWN_SEC
Older(age) == IF age < AgeCap THEN age + 1 ELSE AgeCap

\* The module globals, and the page the agent is attached to.
InitGlobals ==
  /\ host \in Hosts
  /\ header \in IF host = WA THEN HeaderNames \cup {NoneVal} ELSE {NoneVal}
  /\ composerPresent = TRUE
  /\ composer = <<>>
  /\ thread = EmptyThread
  /\ AUTO_MODE = FALSE
  /\ last_sent_text = <<>>
  /\ last_sent_time = AgeCap
  /\ last_sent_per_chat = EmptyDict
  /\ last_seen_messages = EmptyDict
  /\ pc = [t \in Tasks |-> IF t = "bg" THEN "sleep" ELSE "idle"]
  /\ page = [t \in Tasks |-> "page"]
  /\ timer = 0
  /\ cyc = NoCycle
  /\ tp = [t \in Tasks |-> NoFrame]
  /\ fgCount = 0

\* The globals with the configuration of the source: no domain lock.
InitAgent ==
  /\ InitGlobals
  /\ LOCK_TO_DOMAIN = FALSE
  /\ _LOCK_HOST = host

\* The agent after its start; the finder is looked at on its own below.
Init ==
  /\ InitAgent
  /\ doc = NoDoc
  /\ found = NotRun
  /\ marks = {}
  /\ walk = NoWalk
  /\ call = NoCall

\* ------------------------------------------------------------ environment
\* One second passes.  The steps of a task take no time: time passes while
\* the background task sleeps, and the sleep ends on time.
Tick ==
  /\ timer > 0
  /\ timer' = timer - 1
  /\ last_sent_time' = Older(last_sent_time)
  /\ last_sent_per_chat' =
       [k \in DOMAIN last_sent_per_chat |->
          <<last_sent_per_chat[k][1], Older(last_sent_per_chat[k][2])>>]
  /\ UNCHANGED <<envVars, composer, thread, AUTO_MODE, last_sent_text,
                 last_seen_messages, pc, page, cyc, tp, fgCount, scorerVars>>

\* The counterpart posts a bubble in the open conversation.
EnvIncoming(t) ==
  /\ host \in CHAT_DOMAINS
  /\ thread' = [lastIn |-> IF Strip(t) # <<>> THEN t ELSE thread.lastIn,
                lastAny |-> t, lastAuthor |-> "them"]
  /\ UNCHANGED <<envVars, composer, AUTO_MODE, sentVars, last_seen_messages,
                 pc, page, timer, cyc, tp, fgCount, scorerVars>>

\* The user brings another site to the front.
EnvNavigate(h) ==
  /\ h # host
  /\ host' = h
  /\ header' = NoneVal
  /\ composerPresent' = TRUE
  /\ composer' = <<>>
  /\ thread' = EmptyThread
  /\ UNCHANGED <<AUTO_MODE, sentVars, last_seen_messages,
                 pc, page, timer, cyc, tp, fgCount, scorerVars>>

\* The conversation header appears, changes or goes away.
EnvHeader(n) ==
  /\ host = WA
  /\ n # header
  /\ header' = n
  /\ UNCHANGED <<host, composerPresent, composer, thread, AUTO_MODE, sentVars,
                 last_seen_messages, pc, page, timer, cyc, tp, fgCount, scorerVars>>

\* The composer element appears or goes away (no conversation open).
EnvComposer ==
  /\ composerPresent' = ~composerPresent
  /\ composer' = <<>>
  /\ UNCHANGED <<host, header, thread, AUTO_MODE, sentVars,
                 last_seen_messages, pc, page, timer, cyc, tp, fgCount, scorerVars>>

\* GUI._toggle_auto
ToggleAuto ==
  /\ AUTO_MODE' = ~AUTO_MODE
  /\ UNCHANGED <<envVars, composer, thread, sentVars, last_seen_messages,
                 pc, page, timer, cyc, tp, fgCount, scorerVars>>

\* ------------------------------------------------------------- page reads
\* get_active_chat_identity: a label only on WhatsApp, and only a non-empty one
get_active_chat_identity(h, hdr) ==
  IF h = WA /\ hdr # NoneVal /\ hdr # "" THEN hdr ELSE NoneVal

\* extract_latest_incoming_message: WhatsApp skips the message-out containers,
\* Bumble takes the last bubble of the log whoever wrote it.
extract_latest_incoming_message(h, th) ==
  IF h = WA THEN Strip(th.lastIn)
  ELSE IF h = BUMBLE THEN Strip(th.lastAny)
  ELSE NoText

\* The extracted text is a bubble the agent itself sent (what the page knows
\* and the extraction on Bumble does not look at).
ExtractedOwn(h, th) ==
  /\ h = BUMBLE
  /\ th.lastAuthor = "me"
  /\ Strip(th.lastAny) # <<>>

\* generate_reply: the language model's (stripped) answer or the fallback text
generate_reply(last_msg) == ReplyTexts

\* random.uniform(AUTO_MIN_REPLY_DELAY, AUTO_MAX_REPLY_DELAY), in whole seconds
ReplyDelays == {0, 1}

\* ------------------------------------------------------ auto_responder_loop
\* Mutant: the comparison with the last seen message is lost.
IsNewIncoming_NoDedup(key, latest) == latest # NoText

\* _last_seen_messages.get(chat_key) != latest
IsNewIncoming(key, latest) == DictGet(last_seen_messages, key, NoText) # latest

\* Mutant: the window is closed at its end (<= for <).
IsEcho_Inclusive(key, latest) ==
  LET rec == DictGet(last_sent_per_chat, key, <<NoText, AgeCap>>)
  IN /\ rec[1] # <<>>
     /\ Strip(latest) = Strip(rec[1])
     /\ rec[2] <= ECHO_COOLDOWN_SEC

\* Mutant: the cooldown is not looked at.
IsEcho_NoWindow(key, latest) ==
  LET rec == DictGet(last_sent_per_chat, key, <<NoText, AgeCap>>)
  IN /\ rec[1] # <<>>
     /\ Strip(latest) = Strip(rec[1])

\* The echo guard of the polling cycle.
IsEcho(key, latest) ==
  LET rec == DictGet(last_sent_per_chat, key, <<NoText, AgeCap>>)
      last_text == rec[1]
      elapsed == rec[2]          \* now - last_sent_time
  IN /\ last_text # <<>>
     /\ Strip(latest) = Strip(last_text)
     /\ elapsed < ECHO_COOLDOWN_SEC

\* The cycle's locals are dead once it is over; its outcome is kept.
Rest(c) == [NoCycle EXCEPT !.outcome = c.outcome, !.skipped = c.skipped]

\* await asyncio.sleep(AUTO_POLL_SECONDS) that ends a cycle
BgSleep(c) ==
  /\ pc' = [pc EXCEPT !["bg"] = "sleep"]
  /\ timer' = AUTO_POLL_SECONDS
  /\ cyc' = Rest(c)

\* Mutant: the exception ends the task.
BgExcept_Ends ==
  /\ pc' = [pc EXCEPT !["bg"] = "ended"]
  /\ timer' = 0
  /\ cyc' = Rest([cyc EXCEPT !.outcome = "error"])

\* except Exception: warning, then await asyncio.sleep(AUTO_POLL_SECONDS)
BgExcept ==
  /\ pc' = [pc EXCEPT !["bg"] = "sleep"]
  /\ timer' = AUTO_POLL_SECONDS
  /\ cyc' = Rest([cyc EXCEPT !.outcome = "error"])

\* Mutant: the skipped echo is remembered as seen.
BgSkipEcho_MarksSeen(key, latest) ==
  /\ BgSleep([cyc EXCEPT !.latest = latest, !.outcome = "echo",
                         !.skipped = <<key, latest>>])
  /\ last_seen_messages' = DictPut(last_seen_messages, key, latest)

\* The branch of the cycle that skips an echo.
BgSkipEcho(key, latest) ==
  /\ BgSleep([cyc EXCEPT !.latest = latest, !.outcome = "echo",
                         !.skipped = <<key, latest>>])
  /\ UNCHANGED last_seen_messages

\* Top of the loop: the sleep is over, AUTO_MODE, page, host, conversation key.
BgPoll ==
  /\ pc["bg"] = "sleep"
  /\ timer = 0
  /\ UNCHANGED <<envVars, composer, thread, AUTO_MODE, sentVars,
                 last_seen_messages, page, tp, fgCount, scorerVars>>
  /\ IF ~AUTO_MODE THEN BgSleep([cyc EXCEPT !.outcome = "idle"])
     ELSE IF page["bg"] = NoneVal THEN BgExcept
     ELSE IF host \notin AUTO_DOMAINS THEN BgSleep([cyc EXCEPT !.outcome = "nodomain"])
     ELSE LET chat_identity == get_active_chat_identity(host, header)
              chat_key == _chat_storage_key(host, chat_identity)
              c == [cyc EXCEPT !.chat_identity = chat_identity, !.chat_key = chat_key,
                               !.latest = NoText, !.reply = NoText,
                               !.fromSelf = FALSE]
          IN IF chat_key = NoneVal THEN BgSleep([c EXCEPT !.outcome = "nokey"])
             ELSE /\ pc' = [pc EXCEPT !["bg"] = "extract"]
                  /\ cyc' = [c EXCEPT !.outcome = "polling"]
                  /\ UNCHANGED timer

\* Extraction, deduplication, echo guard, reply generation.
BgExtract ==
  /\ pc["bg"] = "extract"
  /\ UNCHANGED <<envVars, composer, thread, AUTO_MODE, sentVars,
                 page, tp, fgCount, scorerVars>>
  /\ \/ /\ host = BUMBLE          \* loc.count() raises
        /\ BgExcept
        /\ UNCHANGED last_seen_messages
     \/ LET latest == extract_latest_incoming_message(host, thread)
            key == cyc.chat_key
        IN IF latest = NoText
             THEN /\ BgSleep([cyc EXCEPT !.outcome = "nolatest"])
                  /\ UNCHANGED last_seen_messages
           ELSE IF ~IsNewIncoming(key, latest)
             THEN /\ BgSleep([cyc EXCEPT !.latest = latest, !.outcome = "dup"])
                  /\ UNCHANGED last_seen_messages
           ELSE IF IsEcho(key, latest)
             THEN BgSkipEcho(key, latest)
           ELSE \E reply \in generate_reply(latest), d \in ReplyDelays :
                  /\ pc' = [pc EXCEPT !["bg"] = "delay"]
                  /\ timer' = d
                  /\ cyc' = [cyc EXCEPT !.latest = latest, !.reply = reply,
                                        !.outcome = "reply",
                                        !.fromSelf = ExtractedOwn(host, thread)]
                  /\ UNCHANGED last_seen_messages

\* ---------------------------------------------------------------- cmd_tippe
AUTO_SEND == TRUE

SendHosts == {WA, BUMBLE}

\* Control leaves a step of cmd_tippe for the next one.
TippeGoto(t, f, label) ==
  /\ pc' = [pc EXCEPT ![t] = label]
  /\ tp' = [tp EXCEPT ![t] = f]
  /\ UNCHANGED <<page, timer, cyc, last_seen_messages>>

\* auto_responder_loop after `page = await cmd_tippe(page, "", reply)`
BgAfterTippe(ret) ==
  /\ page' = [page EXCEPT !["bg"] = ret]
  /\ last_seen_messages' = DictPut(last_seen_messages, cyc.chat_key, cyc.latest)
  /\ pc' = [pc EXCEPT !["bg"] = "sleep"]
  /\ timer' = AUTO_POLL_SECONDS
  /\ cyc' = Rest([cyc EXCEPT !.outcome = "replied"])

\* gui_repl after `page = await cmd_tippe(page, sel, text.strip())`
FgAfterTippe(ret) ==
  /\ page' = [page EXCEPT !["fg"] = ret]
  /\ pc' = [pc EXCEPT !["fg"] = "idle"]
  /\ UNCHANGED <<timer, cyc, last_seen_messages>>

\* cmd_tippe returns ret to its caller.
TippeReturn(t, f, ret) ==
  /\ tp' = [tp EXCEPT ![t] = Returned(f, f.result)]
  /\ IF t = "bg" THEN BgAfterTippe(ret) ELSE FgAfterTippe(ret)

\* An exception leaves cmd_tippe: the loop's handler, or the REPL's.
TippeRaise(t, f) ==
  /\ tp' = [tp EXCEPT ![t] = Returned(f, f.result)]
  /\ IF t = "bg"
       THEN BgExcept /\ UNCHANGED <<page, last_seen_messages>>
       ELSE /\ pc' = [pc EXCEPT !["fg"] = "idle"]
            /\ UNCHANGED <<page, timer, cyc, last_seen_messages>>

\* Entry of cmd_tippe with an empty selector: active page, target discovery,
\* focus, clearing of the old content.
TippeEnter(t, text) ==
  LET f == [NoFrame EXCEPT !.text = text, !.result = "running"]
  IN IF page[t] = NoneVal
       THEN /\ TippeRaise(t, [f EXCEPT !.result = "raised"])
            /\ UNCHANGED composer
     ELSE IF ~composerPresent
       THEN /\ TippeReturn(t, [f EXCEPT !.result = "notfound"], NoneVal)
            /\ UNCHANGED composer
     ELSE \E cleared \in BOOLEAN :
            /\ ~cleared => Len(composer) + Len(text) <= MaxComposerLen
            /\ composer' = IF cleared THEN <<>> ELSE composer
            /\ TippeGoto(t, f, "type")

\* What one strategy of cmd_tippe leaves in the composer.
ApplyStrategy(name, outcome, content, text) ==
  IF outcome # "ok" THEN content
  ELSE IF name = "assign" THEN text
  ELSE content \o text

\* Mutant: the keyboard fallback is not guarded by `if not typed_ok`.
AfterStrategy_Unguarded(name, typed_ok) ==
  IF name = "type" THEN "insert"
  ELSE IF typed_ok THEN "send"
  ELSE IF name = "insert" THEN "assign"
  ELSE "fail"

\* Mutant: the failure return after the last strategy is missing.
AfterStrategy_NoFailure(name, typed_ok) ==
  IF typed_ok THEN "send"
  ELSE IF name = "type" THEN "insert"
  ELSE IF name = "insert" THEN "assign"
  ELSE "send"

\* Where cmd_tippe goes after a strategy: `if not typed_ok:` guards the next.
AfterStrategy(name, typed_ok) ==
  IF typed_ok THEN "send"
  ELSE IF name = "type" THEN "insert"
  ELSE IF name = "insert" THEN "assign"
  ELSE "fail"

StrategyOutcomes == IF composerPresent THEN {"ok", "noop", "raise"} ELSE {"raise"}

\* One strategy and its read-back verification.
TippeStrategy(t, name) ==
  /\ pc[t] = name
  /\ \E o \in StrategyOutcomes, readable \in BOOLEAN :
       /\ (o = "raise") => readable
       /\ LET content == ApplyStrategy(name, o, composer, tp[t].text)
              current_text == IF readable THEN content ELSE <<>>
              typed_ok == o # "raise" /\ _has_typed_text(tp[t].text, current_text)
              f == [tp[t] EXCEPT !.typed_ok = typed_ok,
                                 !.ran = Append(@, <<name, typed_ok>>)]
              next == AfterStrategy(name, typed_ok)
          IN /\ composer' = content
             /\ IF next = "fail"
                  THEN TippeReturn(t, [f EXCEPT !.result = "unverified"], page[t])
                  ELSE TippeGoto(t, f, next)
  /\ UNCHANGED <<envVars, thread, AUTO_MODE, sentVars, fgCount, scorerVars>>

\* _maybe_auto_send: which send action went through
\* ("off", "nostrategy", "enter", "click" or "failed").
_maybe_auto_send(h, enterOk, clickOk) ==
  IF ~AUTO_SEND THEN "off"
  ELSE IF h \in SendHosts
    THEN IF enterOk THEN "enter" ELSE IF clickOk THEN "click" ELSE "failed"
  ELSE "nostrategy"

Delivered(sent) == sent \in {"enter", "click"}

\* The page's reaction to a send action: the composer's content becomes the
\* latest bubble of the conversation, written by the agent.
PageSend(sent) ==
  IF Delivered(sent)
    THEN /\ composer' = <<>>
         /\ thread' = IF Strip(composer) # <<>>
                        THEN [thread EXCEPT !.lastAny = composer, !.lastAuthor = "me"]
                        ELSE thread
    ELSE UNCHANGED <<composer, thread>>

\* `if key: _last_sent_per_chat[key] = (_last_sent_text, _last_sent_time)`
RecordLastSent(sent, key, text, time) ==
  IF key # NoneVal
    THEN last_sent_per_chat' = DictPut(last_sent_per_chat, key, <<text, time>>)
    ELSE UNCHANGED last_sent_per_chat

\* After verification: auto-send, then the globals of the echo guard; on a
\* chat domain the identity lookup suspends before the per-chat record.
TippeSend(t) ==
  /\ pc[t] = "send"
  /\ \E enterOk \in BOOLEAN, clickOk \in BOOLEAN :
       /\ enterOk => clickOk
       /\ LET sent == _maybe_auto_send(host, enterOk, clickOk)
              f == [tp[t] EXCEPT !.sent = sent]
          IN /\ PageSend(sent)
             /\ last_sent_text' = Strip(tp[t].text)
             /\ last_sent_time' = 0
             /\ IF host \in CHAT_DOMAINS
                  THEN /\ TippeGoto(t, [f EXCEPT !.key = host], "record")
                       /\ UNCHANGED last_sent_per_chat
                  ELSE LET key == _chat_storage_key(host, NoneVal)
                       IN /\ RecordLastSent(sent, key, Strip(tp[t].text), 0)
                          /\ TippeReturn(t, [f EXCEPT !.key = key, !.result = "ok"], page[t])
  /\ UNCHANGED <<envVars, AUTO_MODE, fgCount, scorerVars>>

\* The per-chat record, after get_active_chat_identity.
TippeRecord(t) ==
  /\ pc[t] = "record"
  /\ LET chat_identity == get_active_chat_identity(host, header)
         key == _chat_storage_key(tp[t].key, chat_identity)
     IN /\ RecordLastSent(tp[t].sent, key, last_sent_text, last_sent_time)
        /\ TippeReturn(t, [tp[t] EXCEPT !.key = key, !.result = "ok"], page[t])
  /\ UNCHANGED <<envVars, composer, thread, AUTO_MODE, last_sent_text,
                 last_sent_time, fgCount, scorerVars>>

\* The pre-send delay of the cycle is over: cmd_tippe(page, "", reply).
BgDeliver ==
  /\ pc["bg"] = "delay"
  /\ timer = 0
  /\ TippeEnter("bg", cyc.reply)
  /\ UNCHANGED <<envVars, thread, AUTO_MODE, sentVars, fgCount, scorerVars>>

\* gui_repl takes `tippe :: <text>` from the queue.
FgTippe(text) ==
  /\ pc["fg"] = "idle"
  /\ fgCount < MaxFgCmds
  /\ fgCount' = fgCount + 1
  /\ UNCHANGED scorerVars
  /\ TippeEnter("fg", Strip(text))
  /\ UNCHANGED <<envVars, thread, AUTO_MODE, sentVars>>

\* The page and the user, as the background task meets them.
EnvNext ==
  \/ Tick
  \/ \E t \in IncomingTexts : EnvIncoming(t)
  \/ EnvComposer
  \/ ToggleAuto

\* The auto-responder task, its injections included.
BgNext ==
  \/ BgPoll
  \/ BgExtract
  \/ BgDeliver
  \/ \E name \in {"type", "insert", "assign"} : TippeStrategy("bg", name)
  \/ TippeSend("bg")
  \/ TippeRecord("bg")

\* The REPL's `tippe` commands.
FgNext ==
  \/ \E text \in FgTexts : FgTippe(text)
  \/ \E name \in {"type", "insert", "assign"} : TippeStrategy("fg", name)
  \/ TippeSend("fg")
  \/ TippeRecord("fg")

\* The auto-responder against the page; no foreground command is entered.
Next == EnvNext \/ BgNext

Spec == Init /\ [][Next]_vars

\* The foreground commands against the page, where the user also changes the
\* site and the conversation; the auto mode stays off and the loop idles.
NextFg ==
  \/ FgNext
  \/ \E t \in IncomingTexts : EnvIncoming(t)
  \/ EnvComposer
  \/ \E h \in Hosts : EnvNavigate(h)
  \/ \E n \in HeaderNames \cup {NoneVal} : EnvHeader(n)

SpecFg == Init /\ [][NextFg]_vars

\* ===================================================================== claims
LastSeen(key) == DictGet(last_seen_messages, key, NoText)

\* The background task leaves the extraction step of its cycle.
ExtractStep == pc["bg"] = "extract" /\ pc'["bg"] # "extract"

\* What that step extracts.
Extracted == extract_latest_incoming_message(host, thread)

\* C1: a cycle that extracts, under key K, the text that Last-Seen-Incoming[K]
\* already holds dispatches no reply, starts no injection and leaves
\* Last-Seen-Incoming (and the page and the Last-Sent state) as they are.
C1_Deduplication ==
  [][ (ExtractStep /\ Extracted # NoText /\ LastSeen(cyc.chat_key) = Extracted)
        => /\ pc'["bg"] = "sleep"
           /\ cyc'.outcome \in {"dup", "error"}
           /\ UNCHANGED <<last_seen_messages, tp, composer, thread, sentVars>> ]_vars

C1_Witness ==
  /\ cyc.outcome = "dup"
  /\ pc["bg"] = "sleep"
  /\ \E k \in DOMAIN last_seen_messages : last_seen_messages[k] = Strip(thread.lastAny)

\* The echo condition as the claim words it.
EchoCondition(key, t) ==
  /\ key \in DOMAIN last_sent_per_chat
  /\ last_sent_per_chat[key][1] # <<>>
  /\ Strip(t) = Strip(last_sent_per_chat[key][1])
  /\ last_sent_per_chat[key][2] < ECHO_COOLDOWN_SEC

\* The cycle reaches the echo guard: a text was extracted and it is not the
\* last seen one, and the extraction did not raise.
ReachesGuard ==
  /\ ExtractStep
  /\ Extracted # NoText
  /\ LastSeen(cyc.chat_key) # Extracted
  /\ cyc'.outcome # "error"

\* C2: the cycle classifies the extracted text as an echo exactly if a
\* Last-Sent record with a non-empty text exists for the key, the trimmed texts
\* are equal and less than the cooldown has elapsed; otherwise it replies.
C2_EchoDecision ==
  [][ ReachesGuard
        => /\ cyc'.outcome \in {"echo", "reply"}
           /\ (cyc'.outcome = "echo") <=> EchoCondition(cyc.chat_key, Extracted) ]_vars

\* An echo found one second before the end of the cooldown.
C2_Witness ==
  /\ cyc.outcome = "echo"
  /\ \E k \in DOMAIN last_sent_per_chat :
       /\ cyc.skipped = <<k, Strip(last_sent_per_chat[k][1])>>
       /\ last_sent_per_chat[k][2] = ECHO_COOLDOWN_SEC - 1

\* C3: a cycle that classifies the text as an echo goes to its sleep without a
\* reply, without an injection, and with Last-Seen-Incoming and Last-Sent
\* unchanged for every key.
C3_EchoSkipFrame ==
  [][ (ExtractStep /\ cyc'.outcome = "echo")
        => /\ pc'["bg"] = "sleep"
           /\ cyc'.reply = NoText
           /\ UNCHANGED <<last_seen_messages, sentVars, tp, composer, thread>> ]_vars

\* An echo was skipped while the key has no Last-Seen-Incoming entry for it.
C3_Witness ==
  /\ cyc.outcome = "echo"
  /\ pc["bg"] = "sleep"
  /\ cyc.skipped # <<>>
  /\ LastSeen(cyc.skipped[1]) # cyc.skipped[2]

\* C4: a text that was skipped as an echo and is extracted again once the
\* cooldown has elapsed, Last-Seen-Incoming still differing, is answered.
C4_RedetectionAfterCooldown ==
  [][ ( /\ ReachesGuard
        /\ cyc.skipped = <<cyc.chat_key, Extracted>>
        /\ cyc.chat_key \in DOMAIN last_sent_per_chat
        /\ Strip(last_sent_per_chat[cyc.chat_key][1]) = Strip(Extracted)
        /\ last_sent_per_chat[cyc.chat_key][2] >= ECHO_COOLDOWN_SEC )
        => /\ pc'["bg"] = "delay"
           /\ cyc'.outcome = "reply"
           /\ cyc'.latest = Extracted ]_vars

C4_Witness ==
  /\ pc["bg"] = "delay"
  /\ cyc.skipped = <<cyc.chat_key, cyc.latest>>
  /\ cyc.chat_key \in DOMAIN last_sent_per_chat
  /\ Strip(last_sent_per_chat[cyc.chat_key][1]) = cyc.latest
  /\ last_sent_per_chat[cyc.chat_key][2] >= ECHO_COOLDOWN_SEC

\* C5: no reply is ever dispatched to a text that was extracted from a bubble
\* the agent itself sent.
C5_NoSelfReply == ~(pc["bg"] = "delay" /\ cyc.fromSelf)

\* A trace in which the own bubble is answered after the cooldown has run out.
C5_SelfReplyAfterCooldown == C4_Witness /\ cyc.fromSelf

\* The strategies of cmd_tippe in their order.
StrategyOrder == <<"type", "insert", "assign">>

\* The strategies that ran are the first ones of the order, and none but the
\* last of them verified.
EscalatedInOrder(ran) ==
  /\ Len(ran) <= Len(StrategyOrder)
  /\ \A i \in 1..Len(ran) : ran[i][1] = StrategyOrder[i]
  /\ \A i \in 1..(Len(ran) - 1) : ran[i][2] = FALSE

\* C6: the strategies run in the order type, insert_text, assignment; a
\* strategy is about to run only when all the earlier ones ran and failed
\* verification, and cmd_tippe is past the strategies exactly when the last
\* one that ran verified.
C6_EscalationOrder ==
  \A t \in Tasks :
    LET ran == tp[t].ran IN
    /\ EscalatedInOrder(ran)
    /\ \A i \in 1..Len(StrategyOrder) :
         pc[t] = StrategyOrder[i] => (Len(ran) = i - 1 /\ ~tp[t].typed_ok)
    /\ pc[t] \in {"send", "record"} =>
         (ran # <<>> /\ ran[Len(ran)][2] = TRUE /\ tp[t].typed_ok)

\* The second strategy verified after the first had failed.
C6_Witness ==
  /\ pc["bg"] = "send"
  /\ tp["bg"].ran = << <<"type", FALSE>>, <<"insert", TRUE>> >>

\* The last strategy of task t ran and did not verify.
AllStrategiesFailed(t) ==
  /\ pc[t] = "assign"
  /\ pc'[t] # "assign"
  /\ ~(pc'[t] = "send" /\ tp'[t].typed_ok)

\* C7: when the last strategy fails too, cmd_tippe returns with the failure
\* report, no send action is triggered, and the Last-Sent state (global and
\* per key) and the conversation stay as they are.
C7_FailureNoSend ==
  [][ \A t \in Tasks :
        AllStrategiesFailed(t)
          => /\ tp'[t].result = "unverified"
             /\ tp'[t].sent = "none"
             /\ pc'[t] \notin {"send", "record"}
             /\ page'[t] = page[t]
             /\ UNCHANGED <<sentVars, thread>> ]_vars

C7_Witness ==
  /\ tp["bg"].result = "unverified"
  /\ pc["bg"] = "sleep"
  /\ cyc.outcome = "replied"

\* The injection of the cycle's reply returns without having put the text
\* into the composer.
InjectionFails ==
  /\ pc["bg"] \in {"delay", "assign"}
  /\ pc'["bg"] = "sleep"
  /\ tp'["bg"].result \in {"notfound", "unverified"}

\* C8: when the injection for a new incoming message fails, Last-Seen-Incoming
\* of the key is not set to that message.
C8_FailedInjectionNotSeen ==
  [][ InjectionFails
        => DictGet(last_seen_messages', cyc.chat_key, NoText) # cyc.latest ]_vars

\* A task's step writes the Last-Sent record of some key.
WritesLastSent(t) ==
  /\ pc[t] \in {"send", "record"}
  /\ pc'[t] # pc[t]
  /\ last_sent_per_chat' # last_sent_per_chat

\* C9: a Last-Sent record is written by cmd_tippe only, and only when the
\* text was verified and a send action went through.
C9_RecordOnlyAfterDelivery ==
  [][ /\ (last_sent_per_chat' # last_sent_per_chat /\ timer' = timer)
         => \E t \in Tasks : WritesLastSent(t)
      /\ \A t \in Tasks :
           WritesLastSent(t) => (tp[t].typed_ok /\ Delivered(tp'[t].sent)) ]_vars

\* A step of the background task ends its cycle in `except Exception`.
CycleRaises ==
  /\ cyc'.outcome = "error"
  /\ (pc'["bg"] # pc["bg"] \/ timer' > timer)

\* C10: an exception in a cycle is caught: the task does not end, it sleeps
\* one poll interval, and a task that sleeps can always go on (time passes,
\* and when the sleep is over the next cycle starts).
C10_LoopSurvives ==
  [][ /\ pc'["bg"] # "ended"
      /\ CycleRaises => (pc'["bg"] = "sleep" /\ timer' = AUTO_POLL_SECONDS)
      /\ pc["bg"] = "sleep" => (IF timer = 0 THEN ENABLED BgPoll ELSE ENABLED Tick) ]_vars

\* The extraction raised, the exception was caught, the sleep is over and the
\* next cycle can start.
C10_Witness ==
  /\ cyc.outcome = "error"
  /\ page["bg"] # NoneVal
  /\ pc["bg"] = "sleep"
  /\ timer = 0
  /\ ENABLED BgPoll

\* The background task starts a cycle: the sleep is over and the mode is on.
CycleStarts ==
  /\ pc["bg"] = "sleep"
  /\ timer = 0
  /\ AUTO_MODE
  /\ (pc'["bg"] # "sleep" \/ timer' > timer)

\* C11: after a cycle whose delivery found no composer the loop resumes its
\* normal polling: the cycles that follow do not fail at the page lookup.
C11_RecoversAfterNotFound ==
  [][ (CycleStarts /\ tp["bg"].result = "notfound") => cyc'.outcome # "error" ]_vars

\* ------------------------------------------------------------ cancellation
\* Mutant: the loop's handler catches the cancellation as it catches errors.
OnCancel_Swallowed ==
  /\ pc' = [pc EXCEPT !["bg"] = "sleep"]
  /\ timer' = AUTO_POLL_SECONDS
  /\ cyc' = Rest([cyc EXCEPT !.outcome = "cancelled"])

\* asyncio.CancelledError raised at the await the task is suspended in: it is
\* no Exception, so neither cmd_tippe's handlers nor the loop's catch it, and
\* the task ends where it stands.
OnCancel ==
  /\ pc' = [pc EXCEPT !["bg"] = "cancelled"]
  /\ timer' = 0
  /\ cyc' = Rest([cyc EXCEPT !.outcome = "cancelled"])

\* gui_repl leaves its loop: auto_task.cancel()
Cancel ==
  /\ pc["bg"] # "cancelled"
  /\ OnCancel
  /\ tp' = [tp EXCEPT !["bg"] =
               IF @.result = "running" THEN Returned(@, "cancelled") ELSE @]
  /\ UNCHANGED <<envVars, composer, thread, AUTO_MODE, sentVars,
                 last_seen_messages, page, fgCount, scorerVars>>

\* The auto-responder with the cancellation that ends it.
NextCancel == Next \/ Cancel

SpecCancel == Init /\ [][NextCancel]_vars

\* C12: a cancellation ends the task at once, at whatever await it is: the
\* sleep in flight is given up, the handler does not catch it, and from then
\* on the task dispatches nothing and writes nothing.
C12_Cancellation ==
  [][ /\ cyc'.outcome = "cancelled" => (pc'["bg"] = "cancelled" /\ timer' = 0)
      /\ (pc["bg"] # "cancelled" /\ pc'["bg"] = "cancelled")
           => UNCHANGED <<composer, thread, sentVars, last_seen_messages, page>>
      /\ pc["bg"] = "cancelled"
           => /\ pc'["bg"] = "cancelled"
              /\ UNCHANGED <<tp, cyc, page, timer, sentVars, last_seen_messages>>
              /\ thread' # thread => thread'.lastAuthor = "them" ]_vars

\* The task was cancelled inside cmd_tippe, the reply typed and not sent, and
\* the counterpart has written since.
C12_Witness ==
  /\ pc["bg"] = "cancelled"
  /\ tp["bg"].result = "cancelled"
  /\ tp["bg"].sent = "none"
  /\ composer # <<>>
  /\ thread.lastAuthor = "them"

\* The background task takes a step of a reply's delivery: it enters
\* cmd_tippe after the delay, or goes on inside it.
DeliveryStep ==
  /\ pc["bg"] \in {"delay", "type", "insert", "assign", "send", "record"}
  /\ pc'["bg"] # pc["bg"]

\* C13: while the auto mode is off the auto-responder dispatches no reply and
\* writes neither to the page nor to either map, whatever point of its cycle
\* it was at when the mode went off.
C13_IdleWhileOff ==
  [][ ~AUTO_MODE
        => /\ ~DeliveryStep
           /\ UNCHANGED <<last_seen_messages, last_sent_text>>
           /\ thread' # thread => thread'.lastAuthor = "them" ]_vars

\* ---------------------------------------------------- the two tasks together
\* gui_repl and auto_responder_loop are tasks of one event loop: each runs
\* until its next await, and then the other may run.  One WhatsApp
\* conversation stays in front, and the steps are those of a stretch of time
\* in which no full second passes.
InitBoth ==
  /\ Init
  /\ host = WA
  /\ header = NoneVal

NextBoth ==
  \/ FgNext
  \/ BgNext
  \/ \E t \in IncomingTexts : EnvIncoming(t)
  \/ ToggleAuto

SpecBoth == InitBoth /\ [][NextBoth]_vars

\* Task t is inside cmd_tippe, past the discovery of its target.
InTippe(t) == pc[t] \in {"type", "insert", "assign", "send", "record"}

\* C14: the foreground command and the auto-responder are never inside an
\* injection at the same time.
C14_MutualExclusion == ~(InTippe("fg") /\ InTippe("bg"))

\* Task t's cmd_tippe writes the per-chat record after the identity lookup.
RecordStep(t) == pc[t] = "record" /\ pc'[t] # "record"

\* The key task t writes its record under.
RecordKey(t) == _chat_storage_key(tp[t].key, get_active_chat_identity(host, header))

\* C15: the Last-Sent record an injection stores under its key holds the text
\* of that injection, whatever the other task does in between.
C15_OwnRecord ==
  [][ \A t \in Tasks :
        (RecordStep(t) /\ RecordKey(t) # NoneVal)
          => last_sent_per_chat'[RecordKey(t)][1] = Strip(tp[t].text) ]_vars

\* --------------------------------------------- the REPL's unguarded inputs
\* The inputs gui_repl handles before its `try`: the AI-reply token, the
\* AI-draft token, and natural language.
ReplInputs == {"reply", "draft", "natural"}

\* An exception leaves gui_repl's loop: the REPL is over.
FgCrash ==
  /\ pc' = [pc EXCEPT !["fg"] = "crashed"]
  /\ UNCHANGED <<composer, page, timer, cyc, tp, last_seen_messages>>

\* The input is done without an injection; the loop takes the next message.
FgContinue ==
  /\ UNCHANGED <<pc, composer, page, timer, cyc, tp, last_seen_messages>>

\* compose_chat_reply: None off the chat domains, otherwise the extraction
\* (which may raise on Bumble) and the generated reply, None when it is empty.
compose_chat_reply(pg, h, th) ==
  IF pg = NoneVal \/ h \notin CHAT_DOMAINS
    THEN {[status |-> "none", text |-> NoText]}
  ELSE (IF h = BUMBLE THEN {[status |-> "raise", text |-> NoText]} ELSE {})
         \cup {IF r = <<>> THEN [status |-> "none", text |-> NoText]
                           ELSE [status |-> "reply", text |-> Strip(r)] :
                 r \in generate_reply(extract_latest_incoming_message(h, th))}

\* gui_repl takes a token or a natural-language message from the queue.
FgCompose(kind) ==
  /\ pc["fg"] = "idle"
  /\ fgCount < MaxFgCmds
  /\ fgCount' = fgCount + 1
  /\ UNCHANGED scorerVars
  /\ UNCHANGED <<envVars, thread, AUTO_MODE, sentVars>>
  /\ \E reply_text \in compose_chat_reply(page["fg"], host, thread) :
       IF reply_text.status = "raise" THEN FgCrash
       ELSE IF reply_text.status = "reply"
         THEN IF kind = "draft" THEN FgContinue
              ELSE TippeEnter("fg", reply_text.text)
       ELSE IF kind = "natural"
         THEN \/ FgContinue                \* the suggested command, in the `try`
              \/ \E text \in FgTexts : TippeEnter("fg", Strip(text))
       ELSE FgContinue

\* The foreground with all its inputs.
NextRepl ==
  \/ NextFg
  \/ \E kind \in ReplInputs : FgCompose(kind)

SpecRepl == Init /\ [][NextRepl]_vars

\* C16: no failure while a foreground input is handled ends the REPL.
C16_ReplSurvives == pc["fg"] # "crashed"

\* ===================================================== _find_dom_input
\* The elements of a document, as far as the finder looks at them.  Attribute
\* texts are sequences of characters.
LabelNone == <<>>
LabelTypeAMessage == <<"T", "y", "p", "e", " ", "a", " ", "m", "e", "s", "s", "a", "g", "e">>
LabelSearch == <<"S", "e", "a", "r", "c", "h">>
LabelSearchMessages == <<"S", "e", "a", "r", "c", "h", " ", "m", "e", "s", "s", "a", "g", "e", "s">>
RoleTextbox == <<"t", "e", "x", "t", "b", "o", "x">>

\* String.prototype.toLowerCase, on the capitals the labels use
LowerChar(c) == IF c = "T" THEN "t" ELSE IF c = "S" THEN "s" ELSE c
ToLower(s) == [i \in 1..Len(s) |-> LowerChar(s[i])]

\* const keywords = [...]  (the entries written in ASCII)
keywords ==
  { <<"m", "e", "s", "s", "a", "g", "e">>,
    <<"n", "a", "c", "h", "r", "i", "c", "h", "t">>,
    <<"r", "e", "p", "l", "y">>,
    <<"a", "n", "t", "w", "o", "r", "t">>,
    <<"w", "r", "i", "t", "e", " ", "a", " ", "m", "e", "s", "s", "a", "g", "e">>,
    <<"t", "y", "p", "e", " ", "a", " ", "m", "e", "s", "s", "a", "g", "e">>,
    <<"g", "i", "b", " ", "e", "i", "n", "e", " ", "n", "a", "c", "h", "r", "i", "c", "h", "t", " ", "e", "i", "n">>,
    <<"m", "e", "s", "s", "a", "g", "g", "i", "o">>,
    <<"m", "e", "n", "s", "a", "j", "e">>,
    <<"m", "e", "n", "s", "a", "g", "e", "m">> }

\* const searchWords = [...]  (the entries written in ASCII)
searchWords ==
  { <<"s", "e", "a", "r", "c", "h">>,
    <<"s", "u", "c", "h", "e">>,
    <<"s", "u", "c", "h", "e", "n">>,
    <<"b", "u", "s", "c", "a", "r">>,
    <<"r", "e", "c", "h", "e", "r", "c", "h", "e">>,
    <<"p", "e", "s", "q", "u", "i", "s", "a">> }

\* keywords.some(k => attrs.includes(k))
SomeIn(words, attrs) == \E k \in words : Contains(attrs, k)

\* A plain single-line input in the middle of the page; the other elements
\* are written as changes of it.
PlainInput ==
  [tag |-> "INPUT", width |-> 300, height |-> 40,
   visibility |-> "visible", display |-> "block",
   distBottom |-> 400, editable |-> FALSE,
   ariaLabel |-> LabelNone, role |-> <<>>, type |-> "", dataTab |-> "",
   inChrome |-> FALSE, inChatListSearch |-> FALSE, inAside |-> FALSE,
   inFooter |-> FALSE, sendInside |-> FALSE, sendNearby |-> FALSE,
   labels |-> <<>>, inComposeBox |-> FALSE]

\* const selectors = "textarea, input[type='text']:not([type='search']),
\*                    input:not([type]), [contenteditable='true'], [role='textbox']"
IsCandidate(el) ==
  \/ el.tag = "TEXTAREA"
  \/ (el.tag = "INPUT" /\ el.type \in {"", "text"})
  \/ el.editable
  \/ el.role = RoleTextbox

isVisible(el) ==
  /\ el.width > 20
  /\ el.height > 16
  /\ el.visibility # "hidden"
  /\ el.display # "none"

\* s += Math.max(0, 120 - Math.min(120, distBottom))
PositionTerm(el) ==
  LET capped == IF el.distBottom < 120 THEN el.distBottom ELSE 120
  IN IF 120 - capped > 0 THEN 120 - capped ELSE 0

SurfaceTerm(el) ==
  (IF el.editable THEN 50 ELSE 0)
  + (IF el.tag = "TEXTAREA" THEN 40 ELSE 0)
  + (IF el.tag = "DIV" THEN 10 ELSE 0)

\* placeholder, data-placeholder, aria-label, role, id and name, joined by
\* blanks and lowered; the elements carry an aria-label and a role only
attrs(el) == ToLower(<<" ", " ">> \o el.ariaLabel \o <<" ">> \o el.role \o <<" ", " ">>)

\* Mutant: the penalty of the search words is added.
HintTerm_SignSlip(el) ==
  (IF SomeIn(keywords, attrs(el)) THEN 70 ELSE 0)
  + (IF SomeIn(searchWords, attrs(el)) THEN 140 ELSE 0)

HintTerm(el) ==
  (IF SomeIn(keywords, attrs(el)) THEN 70 ELSE 0)
  - (IF SomeIn(searchWords, attrs(el)) THEN 140 ELSE 0)

TypeTerm(el) ==
  - (IF el.type = "search" THEN 140 ELSE 0)
  - (IF el.type \in {"email", "password"} THEN 60 ELSE 0)

DataTabTerm(el) ==
  (IF el.dataTab \in {"6", "7", "9", "10", "11"} THEN 60 ELSE 0)
  - (IF el.dataTab = "3" THEN 220 ELSE 0)

\* el.closest('header, [role="search"], ..., [aria-label*="such" i],
\* [aria-label*="search" i]'): an ancestor, or the element by its own label
InSearchChrome(el) ==
  \/ el.inChrome
  \/ Contains(ToLower(el.ariaLabel), <<"s", "u", "c", "h">>)
  \/ Contains(ToLower(el.ariaLabel), ToLower(LabelSearch))

\* Mutant: the penalty of the header and search containers is added.
StructureTerm_SignSlip(el) ==
  (IF InSearchChrome(el) THEN 160 ELSE 0)
  - (IF el.inChatListSearch THEN 220 ELSE 0)
  - (IF el.inAside THEN 30 ELSE 0)
  + (IF el.inFooter THEN 35 ELSE 0)

StructureTerm(el) ==
  - (IF InSearchChrome(el) THEN 160 ELSE 0)
  - (IF el.inChatListSearch THEN 220 ELSE 0)
  - (IF el.inAside THEN 30 ELSE 0)
  + (IF el.inFooter THEN 35 ELSE 0)

\* el.closest('form, footer, section, div') is the element itself when it is
\* a div, else its nearest such ancestor; the send button is looked up inside.
SendTerm(el) ==
  LET hasSend == IF el.tag = "DIV" THEN el.sendInside ELSE el.sendNearby
  IN IF hasSend THEN 30 ELSE 0

\* aria-labelledby: the first label text with a keyword or a search word
RECURSIVE LabelTerm(_)
LabelTerm(lbls) ==
  IF lbls = <<>> THEN 0
  ELSE IF SomeIn(keywords, ToLower(Head(lbls))) THEN 40
  ELSE IF SomeIn(searchWords, ToLower(Head(lbls))) THEN 0 - 120
  ELSE LabelTerm(Tail(lbls))

\* The sum scoreEl builds for a visible element.
ScoreSum(el) ==
  PositionTerm(el) + SurfaceTerm(el) + HintTerm(el) + TypeTerm(el)
  + DataTabTerm(el) + StructureTerm(el) + SendTerm(el) + LabelTerm(el.labels)

\* Mutant: the visibility gate is missing.
scoreEl_NoGate(el) == ScoreSum(el)

scoreEl(el) == IF ~isVisible(el) THEN 0 - 1 ELSE ScoreSum(el)

\* Mutant: the selection loop accepts a score equal to the best so far.
RECURSIVE SelectBest_OrEqual(_, _, _, _)
SelectBest_OrEqual(els, i, best, bestScore) ==
  IF i > Len(els) THEN best
  ELSE IF IsCandidate(els[i]) /\ scoreEl(els[i]) >= bestScore
    THEN SelectBest_OrEqual(els, i + 1, i, scoreEl(els[i]))
  ELSE SelectBest_OrEqual(els, i + 1, best, bestScore)

\* The selection loop: `let best = null, bestScore = -1; for (const el of
\* candidates) { if (sc > bestScore) ... }`, over the frame's elements in walk
\* order; 0 stands for null.
RECURSIVE SelectBest(_, _, _, _)
SelectBest(els, i, best, bestScore) ==
  IF i > Len(els) THEN best
  ELSE IF IsCandidate(els[i]) /\ scoreEl(els[i]) > bestScore
    THEN SelectBest(els, i + 1, i, scoreEl(els[i]))
  ELSE SelectBest(els, i + 1, best, bestScore)

\* "[data-testid='conversation-compose-box-input'] [contenteditable='true']"
WaComposeBox(el) == el.inComposeBox /\ el.editable

\* "div[contenteditable='true'][data-tab='10']"
WaDataTab(el) == el.tag = "DIV" /\ el.editable /\ el.dataTab = "10"

\* locator(selector).first: the first element of the frame the selector
\* matches, 0 when count() is 0
FirstComposeBox(els) ==
  IF \E i \in 1..Len(els) : WaComposeBox(els[i])
    THEN CHOOSE i \in 1..Len(els) :
           WaComposeBox(els[i]) /\ \A j \in 1..(i - 1) : ~WaComposeBox(els[j])
    ELSE 0

FirstDataTab(els) ==
  IF \E i \in 1..Len(els) : WaDataTab(els[i])
    THEN CHOOSE i \in 1..Len(els) :
           WaDataTab(els[i]) /\ \A j \in 1..(i - 1) : ~WaDataTab(els[j])
    ELSE 0

NotFound == [index |-> 0, via |-> "none"]

\* An exception leaves _try_frame.
Raised == [index |-> 0, via |-> "raise"]

\* _try_frame: the WhatsApp fast path (when the element can be marked), then
\* the scorer; nothing when the evaluation in the frame fails. evalOk is
\* FALSE for a frame that is detached or navigating: every awaited operation
\* on it fails, and `await wa_locator.count()` is awaited outside any try.
_try_frame(frame_host, fr, handleOk) ==
  LET box == FirstComposeBox(fr.els)
      tab == FirstDataTab(fr.els)
      best == SelectBest(fr.els, 1, 0, 0 - 1)
  IN IF frame_host = WA /\ ~fr.evalOk THEN Raised
     ELSE IF frame_host = WA /\ box # 0 /\ handleOk THEN [index |-> box, via |-> "fast"]
     ELSE IF frame_host = WA /\ tab # 0 /\ handleOk THEN [index |-> tab, via |-> "fast"]
     ELSE IF ~fr.evalOk THEN NotFound
     ELSE IF best = 0 THEN NotFound
     ELSE [index |-> best, via |-> "score"]

NoElement == [frame |-> 0, index |-> 0, via |-> "none"]

\* _find_dom_input: the frames in their order, the first that yields an element
RECURSIVE TryFrames(_, _, _)
TryFrames(h, d, k) ==
  IF k > Len(d.frames) THEN NoElement
  ELSE LET loc == _try_frame(h, d.frames[k], d.handleOk)
       IN IF loc.via = "raise" THEN [frame |-> k, index |-> 0, via |-> "raise"]
          ELSE IF loc.index # 0 THEN [frame |-> k, index |-> loc.index, via |-> loc.via]
          ELSE TryFrames(h, d, k + 1)

_find_dom_input(h, d) == TryFrames(h, d, 1)

\* The marked elements after _try_frame on frame k: _mark_locator and the
\* script both remove the markers of the frame's own document before they set
\* one, and the script removes them even when it selects nothing; a frame
\* whose evaluation fails keeps its markers.
MarksAfterFrame(h, d, k, m) ==
  LET fr == d.frames[k]
      loc == _try_frame(h, fr, d.handleOk)
      others == {c \in m : c[1] # k}
  IN IF loc.via = "fast" THEN others \cup {<<k, loc.index>>}
     ELSE IF ~fr.evalOk THEN m
     ELSE IF loc.index = 0 THEN others
     ELSE others \cup {<<k, loc.index>>}

\* The marked elements after _find_dom_input's walk over the frames.
RECURSIVE MarkFrames(_, _, _, _)
MarkFrames(h, d, k, m) ==
  IF k > Len(d.frames) THEN m
  ELSE IF \/ _try_frame(h, d.frames[k], d.handleOk).index # 0
          \/ _try_frame(h, d.frames[k], d.handleOk).via = "raise"
    THEN MarksAfterFrame(h, d, k, m)
  ELSE MarkFrames(h, d, k + 1, MarksAfterFrame(h, d, k, m))

\* ------------------------------------------------- the documents looked at
\* The most elements of the main frame.
MaxCandidates == 2

\* An unlabeled textarea at the bottom of the viewport.
BottomTextarea(aside) ==
  [PlainInput EXCEPT !.tag = "TEXTAREA", !.distBottom = 0, !.inAside = aside]

\* An input with a search label inside a header.
HeaderSearch(label, dist) ==
  [PlainInput EXCEPT !.ariaLabel = label, !.inChrome = TRUE, !.distBottom = dist]

\* Scenario A's composer: a contenteditable div at the bottom, labelled
\* "Type a message", with a send button as its sibling.
ComposerDiv ==
  [PlainInput EXCEPT !.tag = "DIV", !.editable = TRUE, !.role = RoleTextbox,
                     !.ariaLabel = LabelTypeAMessage, !.distBottom = 0,
                     !.inFooter = FALSE, !.sendNearby = TRUE]

\* The composer in the four ways the visibility gate rejects.
HiddenComposers ==
  { [ComposerDiv EXCEPT !.width = 20],
    [ComposerDiv EXCEPT !.height = 16],
    [ComposerDiv EXCEPT !.visibility = "hidden"],
    [ComposerDiv EXCEPT !.display = "none"] }

\* WhatsApp's compose box, shown or not.
WaComposer(display) ==
  [ComposerDiv EXCEPT !.inComposeBox = TRUE, !.dataTab = "10", !.display = display]

Elements ==
  {PlainInput, ComposerDiv}
    \cup {BottomTextarea(a) : a \in BOOLEAN}
    \cup {HeaderSearch(LabelSearch, 400), HeaderSearch(LabelSearchMessages, 400),
          HeaderSearch(LabelSearchMessages, 0)}
    \cup HiddenComposers
    \cup {WaComposer(d) : d \in {"block", "none"}}

SeqsUpTo(S, n) == UNION {[1..k -> S] : k \in 0..n}

\* The main frame, whose script evaluation may fail, and at most one iframe
\* with one element.
MainFrames ==
  {[els |-> e, evalOk |-> ok] : e \in SeqsUpTo(Elements, MaxCandidates), ok \in BOOLEAN}

SubFrames == {<<>>} \cup {<<[els |-> <<e>>, evalOk |-> TRUE]>> : e \in Elements}

Docs ==
  {[frames |-> <<m>> \o s, handleOk |-> h] :
     m \in MainFrames, s \in SubFrames, h \in BOOLEAN}

InitScorer ==
  /\ InitAgent
  /\ header = NoneVal
  /\ doc \in Docs
  /\ found = NotRun
  /\ marks = {}
  /\ walk = NoWalk
  /\ call = NoCall

\* cmd_tippe's `loc = await _find_dom_input(page)` on the document
FindDomInput ==
  /\ found = NotRun
  /\ found' = _find_dom_input(host, doc)
  /\ marks' = MarkFrames(host, doc, 1, marks)
  /\ UNCHANGED <<envVars, composer, thread, AUTO_MODE, sentVars,
                 last_seen_messages, pc, page, timer, cyc, tp, fgCount, doc, walk, call, lockVars>>

NextScorer == FindDomInput

SpecScorer == InitScorer /\ [][NextScorer]_vars

\* The element _find_dom_input returned.
FoundEl == doc.frames[found.frame].els[found.index]

\* ------------------------------------------------- claims on the scorer
\* The candidates of a document: frame and index, in walk order.
Candidates(d) ==
  {c \in (1..Len(d.frames)) \X (1..(MaxCandidates + 1)) :
     /\ c[2] <= Len(d.frames[c[1]].els)
     /\ IsCandidate(d.frames[c[1]].els[c[2]])}

ScoreOf(d, c) == scoreEl(d.frames[c[1]].els[c[2]])

\* A candidate the selection loop can pick: its score beats the initial -1.
Viable(d) == {c \in Candidates(d) : ScoreOf(d, c) > 0 - 1}

WalkBefore(a, b) == a[1] < b[1] \/ (a[1] = b[1] /\ a[2] < b[2])

\* The first candidate in walk order among those with the maximum score.
GlobalBest(d) ==
  CHOOSE c \in Viable(d) :
    \A o \in Viable(d) :
      \/ ScoreOf(d, o) < ScoreOf(d, c)
      \/ (ScoreOf(d, o) = ScoreOf(d, c) /\ (o = c \/ WalkBefore(c, o)))

\* One of the WhatsApp selectors matches on a WhatsApp page.
FastPathApplies ==
  /\ host = WA
  /\ \E k \in 1..Len(doc.frames) :
       \/ FirstComposeBox(doc.frames[k].els) # 0
       \/ FirstDataTab(doc.frames[k].els) # 0

AllFramesEvaluate == \A k \in 1..Len(doc.frames) : doc.frames[k].evalOk

\* C17: when no fast path applies (and every frame's script runs),
\* _find_dom_input returns the candidate with the maximum score over all
\* frames, the first in walk order among equals, and returns none only
\* when no candidate is viable.
C17_GlobalMaximum ==
  (found # NotRun /\ ~FastPathApplies /\ AllFramesEvaluate) =>
    IF Viable(doc) = {} THEN found.via = "none"
    ELSE /\ found.via = "score"
         /\ <<found.frame, found.index>> = GlobalBest(doc)

\* C18, as stated: an element that fails the visibility gate is never the
\* element _find_dom_input returns, whatever the host of the page.
C18_NeverHidden == found.index # 0 => isVisible(FoundEl)

\* C18, amended: the scorer never selects an element that fails the
\* visibility gate, whatever its other attributes or position; only the
\* WhatsApp fast path, which bypasses scoring, can return one.
C18_ScorerNeverHidden == found.via = "score" => isVisible(FoundEl)

\* The scorer chose in a frame that also holds a hidden composer.
C18_Witness ==
  /\ found.via = "score"
  /\ \E i \in 1..Len(doc.frames[found.frame].els) :
       doc.frames[found.frame].els[i] \in HiddenComposers

IsBottomTextarea(el) ==
  el.tag = "TEXTAREA" /\ el.distBottom = 0 /\ el.ariaLabel = LabelNone /\ isVisible(el)

IsHeaderSearch(el) ==
  /\ el.tag = "INPUT" /\ el.inChrome /\ isVisible(el)
  /\ Contains(ToLower(el.ariaLabel), ToLower(LabelSearch))

\* Every element of every frame of the document.
ElementsOf(d) ==
  {d.frames[k].els[i] : <<k, i>> \in
     {c \in (1..Len(d.frames)) \X (1..(MaxCandidates + 1)) : c[2] <= Len(d.frames[c[1]].els)}}

HasTextareaAndSearch ==
  /\ \E el \in ElementsOf(doc) : IsBottomTextarea(el)
  /\ \E el \in ElementsOf(doc) : IsHeaderSearch(el)

\* C19: in a document with a visible unlabeled textarea at the viewport
\* bottom and a visible header input labelled as a search, the scorer never
\* selects the search input, and when these are the document's elements it
\* selects the textarea, in either document order.
C19_TextareaOverSearch ==
  (found # NotRun /\ HasTextareaAndSearch) =>
    /\ found.via = "score" => ~IsHeaderSearch(FoundEl)
    /\ ( /\ AllFramesEvaluate
         /\ \A el \in ElementsOf(doc) : IsBottomTextarea(el) \/ IsHeaderSearch(el) )
       => (found.via = "score" /\ IsBottomTextarea(FoundEl))

\* The search input comes first in the frame, sits at the bottom and is
\* labelled "Search messages"; the textarea after it is selected.
C19_Witness ==
  /\ found.via = "score"
  /\ Len(doc.frames[found.frame].els) = 2
  /\ doc.frames[found.frame].els[1] = HeaderSearch(LabelSearchMessages, 0)
  /\ IsHeaderSearch(doc.frames[found.frame].els[1])
  /\ found.index = 2
  /\ IsBottomTextarea(FoundEl)

IsScenarioComposer(el) ==
  /\ el.tag = "DIV" /\ el.editable /\ isVisible(el) /\ el.distBottom = 0
  /\ el.ariaLabel = LabelTypeAMessage /\ el.sendNearby
  /\ ~el.inComposeBox

\* Scenario A's document: the composer and header search inputs, nothing else.
ScenarioA ==
  /\ AllFramesEvaluate
  /\ \E el \in ElementsOf(doc) : IsScenarioComposer(el)
  /\ \E el \in ElementsOf(doc) : IsHeaderSearch(el)
  /\ \A el \in ElementsOf(doc) : IsScenarioComposer(el) \/ IsHeaderSearch(el)

\* C20: in scenario A the composer div is the chosen element, its score is
\* positive, and it exceeds the score of every header search input of the
\* document by more than 100.
C20_ScenarioA ==
  (found # NotRun /\ ScenarioA) =>
    /\ found.via = "score"
    /\ IsScenarioComposer(FoundEl)
    /\ scoreEl(FoundEl) > 0
    /\ \A el \in ElementsOf(doc) :
         IsHeaderSearch(el) => scoreEl(FoundEl) - scoreEl(el) > 100

\* The composer is chosen although a search input at the bottom, labelled
\* "Search messages", precedes it in the frame.
C20_Witness ==
  /\ found.via = "score"
  /\ ScenarioA
  /\ found.index = 2
  /\ doc.frames[found.frame].els[1] = HeaderSearch(LabelSearchMessages, 0)
  /\ IsScenarioComposer(FoundEl)

\* ------------------------------------------------- repeated calls, markers
\* The elements of the documents that are searched repeatedly.
MarkElements == {PlainInput, ComposerDiv, WaComposer("block")}

MarkDocs ==
  {[frames |-> <<[els |-> e, evalOk |-> TRUE]>> \o s, handleOk |-> TRUE] :
     e \in SeqsUpTo(MarkElements, MaxCandidates),
     s \in {<<>>} \cup {<<[els |-> <<x>>, evalOk |-> TRUE]>> : x \in MarkElements}}

InitMarks ==
  /\ InitAgent
  /\ header = NoneVal
  /\ doc \in MarkDocs
  /\ found = NotRun
  /\ marks = {}
  /\ walk = NoWalk
  /\ call = NoCall

\* A later call of _find_dom_input on the same page.
FindAgain ==
  /\ found # NotRun
  /\ found' = _find_dom_input(host, doc)
  /\ marks' = MarkFrames(host, doc, 1, marks)
  /\ UNCHANGED <<envVars, composer, thread, AUTO_MODE, sentVars,
                 last_seen_messages, pc, page, timer, cyc, tp, fgCount, doc, walk, call, lockVars>>

\* frame.evaluate on frame k starts or stops failing (a navigation in the
\* frame begins or ends).
FrameFlaps(k) ==
  /\ k \in 1..Len(doc.frames)
  /\ doc' = [doc EXCEPT !.frames[k].evalOk = ~@]
  /\ UNCHANGED <<envVars, composer, thread, AUTO_MODE, sentVars,
                 last_seen_messages, pc, page, timer, cyc, tp, fgCount, found, marks, walk, call, lockVars>>

\* The page renders another element at the end of its main document.
ElementAppears(e) ==
  /\ Len(doc.frames[1].els) < MaxCandidates
  /\ doc' = [doc EXCEPT !.frames[1].els = Append(@, e)]
  /\ UNCHANGED <<envVars, composer, thread, AUTO_MODE, sentVars,
                 last_seen_messages, pc, page, timer, cyc, tp, fgCount, found, marks, walk, call, lockVars>>

NextMarks ==
  \/ FindDomInput
  \/ FindAgain
  \/ \E k \in 1..2 : FrameFlaps(k)
  \/ \E e \in MarkElements : ElementAppears(e)

SpecMarks == InitMarks /\ [][NextMarks]_vars

\* C21: after any sequence of _find_dom_input calls at most one element of
\* the page carries the data-__agent marker, and after a successful call it
\* is the element that call chose.
C21_SingleMarker ==
  found # NotRun =>
    /\ Cardinality(marks) <= 1
    /\ found.index # 0 => marks = {<<found.frame, found.index>>}

\* A frame that answers holds something _try_frame returns.
FrameYields(h, fr, handleOk) == fr.evalOk /\ _try_frame(h, fr, handleOk).index # 0

\* C22: a frame whose operations fail is skipped and the remaining frames
\* are still examined; no failure leaves _find_dom_input, on any host.
C22_FrameErrorIsolated ==
  found # NotRun =>
    /\ found.via # "raise"
    /\ (\E k \in 1..Len(doc.frames) : FrameYields(host, doc.frames[k], doc.handleOk))
         => found.index # 0

\* ------------------------------------------------- collectCandidates
\* The most roots of a frame: the document and its shadow roots.
MaxRoots == 2

\* The document is the first root, the others are shadow roots.
DocumentRoot == 1
Roots == DocumentRoot..MaxRoots
ShadowRoots == Roots \ {DocumentRoot}

\* The elements the selectors match, in document order.
ElemOrder == <<"e1", "e2">>
WalkElems == {ElemOrder[i] : i \in 1..Len(ElemOrder)}

\* A root: the matching elements querySelectorAll returns for it, and the
\* shadow roots of the hosts the tree walker meets in it. Nothing keeps a
\* shadow root from being met again below itself, or an element from being
\* returned for two roots.
RootShapes == [els : SUBSET WalkElems, shadows : SUBSET ShadowRoots]

\* Mutant: no root counts as seen.
AlreadySeen_Never(w, r) == FALSE

\* `seen.has(root)`
AlreadySeen(w, r) == r \in w.seen

\* `!acc.includes(el)`
Fresh(acc, e) == \A i \in 1..Len(acc) : acc[i] # e

\* `for (const el of elements) if (!acc.includes(el)) acc.push(el)`
RECURSIVE PushAll(_, _, _)
PushAll(acc, els, i) ==
  IF i > Len(ElemOrder) THEN acc
  ELSE IF ElemOrder[i] \in els /\ Fresh(acc, ElemOrder[i])
    THEN PushAll(Append(acc, ElemOrder[i]), els, i + 1)
  ELSE PushAll(acc, els, i + 1)

\* collectCandidates(root, acc, seen) past its guard: the root is seen, its
\* elements are pushed, and the walk over its hosts begins.
EnterRoot(w, r) ==
  [w EXCEPT !.seen = @ \cup {r},
            !.visits[r] = @ + 1,
            !.acc = PushAll(@, w.roots[r].els, 1),
            !.stack = Append(@, [root |-> r, todo |-> w.roots[r].shadows])]

\* The next host the tree walker of the running call meets.
NextShadow(w) ==
  LET todo == w.stack[Len(w.stack)].todo
  IN CHOOSE r \in todo : \A o \in todo : r <= o

\* The running call with the host it is at left behind.
PastHost(w) == [w EXCEPT !.stack[Len(w.stack)].todo = @ \ {NextShadow(w)}]

InitWalk ==
  /\ InitAgent
  /\ host = EXAMPLE
  /\ header = NoneVal
  /\ doc = NoDoc
  /\ found = NotRun
  /\ marks = {}
  /\ call = NoCall
  /\ \E roots \in [Roots -> RootShapes] :
       walk = [roots |-> roots, stack |-> <<>>, acc |-> <<>>, seen |-> {},
               visits |-> [r \in Roots |-> 0], started |-> FALSE]

WalkUnchanged ==
  UNCHANGED <<envVars, composer, thread, AUTO_MODE, sentVars, last_seen_messages,
              pc, page, timer, cyc, tp, fgCount, doc, found, marks, call, lockVars>>

\* `collectCandidates(document, candidates, new Set())`
WalkStart ==
  /\ ~walk.started
  /\ walk' = EnterRoot([walk EXCEPT !.started = TRUE], DocumentRoot)
  /\ WalkUnchanged

\* `if (current.shadowRoot) collectCandidates(current.shadowRoot, acc, seen)`
\* on a root not seen before
WalkDescend ==
  /\ walk.stack # <<>>
  /\ walk.stack[Len(walk.stack)].todo # {}
  /\ ~AlreadySeen(walk, NextShadow(walk))
  /\ walk' = EnterRoot(PastHost(walk), NextShadow(walk))
  /\ WalkUnchanged

\* the same call on a root already seen: `if (!root || seen.has(root)) return`
WalkSkip ==
  /\ walk.stack # <<>>
  /\ walk.stack[Len(walk.stack)].todo # {}
  /\ AlreadySeen(walk, NextShadow(walk))
  /\ walk' = PastHost(walk)
  /\ WalkUnchanged

\* the tree walker of the running call is through: the call returns
WalkReturn ==
  /\ walk.stack # <<>>
  /\ walk.stack[Len(walk.stack)].todo = {}
  /\ walk' = [walk EXCEPT !.stack = SubSeq(@, 1, Len(@) - 1)]
  /\ WalkUnchanged

NextWalk == WalkStart \/ WalkDescend \/ WalkSkip \/ WalkReturn

SpecWalk == InitWalk /\ [][NextWalk]_vars /\ WF_vars(NextWalk)

WalkDone == walk.started /\ walk.stack = <<>>

\* Each root is processed at most once and no element is twice in acc.
WalkOnce ==
  /\ \A r \in DOMAIN walk.visits : walk.visits[r] <= 1
  /\ \A i, j \in 1..Len(walk.acc) : walk.acc[i] = walk.acc[j] => i = j

\* C23: candidate collection ends on every finite document, also when a
\* shadow root is reachable from inside itself; each root is processed at
\* most once and no element appears twice in the candidate list.
C23_WalkTerminates == []WalkOnce /\ <>[]WalkDone

\* The walk is over, it met a shadow root below itself and skipped it, and an
\* element two roots return is once in the list.
C23_Witness ==
  /\ WalkDone
  /\ \E r \in ShadowRoots : r \in walk.seen /\ r \in walk.roots[r].shadows
  /\ \E e \in WalkElems :
       Cardinality({r \in walk.seen : e \in walk.roots[r].els}) > 1

\* ------------------------------------------------- get_active_chat_identity
\* The longest text of a header element.
MaxLabelLen == 2

LabelTexts == SeqsUpTo({"a", " ", FS}, MaxLabelLen)

\* What header.querySelector(sel) gives for a name selector: no element, or
\* an element with its text.
NameSlots ==
  {[there |-> FALSE, text |-> <<>>]} \cup {[there |-> TRUE, text |-> t] : t \in LabelTexts}

\* The header of the page: found by a header selector or not, the elements of
\* two name selectors in their order, and the header's own innerText.
HeaderMarkups ==
  [present : BOOLEAN, title : NameSlots, span : NameSlots,
   fallback : {<<>>, <<" ">>, <<"a", " ">>}]

IdentityInputs ==
  [fn : {"identity"}, done : {FALSE}, urlOk : BOOLEAN, host : Hosts, evalOk : BOOLEAN,
   markup : HeaderMarkups, result : {[kind |-> "none", text |-> <<>>]}]

\* String.prototype.trim(), which keeps U+001C
RECURSIVE JsTrimLeft(_)
JsTrimLeft(s) == IF s # <<>> /\ Head(s) = " " THEN JsTrimLeft(Tail(s)) ELSE s

RECURSIVE JsTrimRight(_)
JsTrimRight(s) ==
  IF s # <<>> /\ s[Len(s)] = " " THEN JsTrimRight(SubSeq(s, 1, Len(s) - 1)) ELSE s

JsTrim(s) == JsTrimLeft(JsTrimRight(s))

NoLabel == [kind |-> "none", text |-> <<>>]
RaisedError == [kind |-> "raise", text |-> <<>>]
Label(t) == [kind |-> "label", text |-> t]

\* The text of a name element that is there and not blank.
SlotText(slot) == IF slot.there THEN JsTrim(slot.text) ELSE <<>>

\* The script evaluated in the page: null without a header, else the first
\* non-empty trimmed text in selector order, else the header's own text.
HeaderScript(m) ==
  IF ~m.present THEN NoLabel
  ELSE IF SlotText(m.title) # <<>> THEN Label(SlotText(m.title))
  ELSE IF SlotText(m.span) # <<>> THEN Label(SlotText(m.span))
  ELSE IF JsTrim(m.fallback) # <<>> THEN Label(JsTrim(m.fallback))
  ELSE NoLabel

\* `try: host = (urlparse(page.url).hostname or "").lower() except: host = ""`
HostRead(q) == IF q.urlOk THEN q.host ELSE ""

\* Mutant: a failure of page.evaluate is not caught.
EvaluateHeader_Uncaught(q) == IF q.evalOk THEN HeaderScript(q.markup) ELSE RaisedError

\* `try: name = await page.evaluate(js) except Exception: name = None`
EvaluateHeader(q) == IF q.evalOk THEN HeaderScript(q.markup) ELSE NoLabel

\* `if isinstance(name, str) and name.strip(): return name.strip()`; an
\* exception that was not caught passes through
Stripped(name) ==
  IF name.kind = "label" /\ Strip(name.text) # <<>> THEN Label(Strip(name.text))
  ELSE IF name.kind = "raise" THEN name
  ELSE NoLabel

\* get_active_chat_identity on the inputs q, with the failures of page.url and
\* page.evaluate as inputs.
IdentityOf(q) ==
  IF HostRead(q) # WA THEN NoLabel
  ELSE Stripped(EvaluateHeader(q))

InitIdentity ==
  /\ InitAgent
  /\ doc = NoDoc
  /\ found = NotRun
  /\ marks = {}
  /\ walk = NoWalk
  /\ call \in IdentityInputs
  /\ host = call.host
  /\ header = NoneVal

CallUnchanged ==
  UNCHANGED <<envVars, composer, thread, AUTO_MODE, sentVars, last_seen_messages,
              pc, page, timer, cyc, tp, fgCount, doc, found, marks, walk, lockVars>>

\* `chat_identity = await get_active_chat_identity(page)`
GetIdentity ==
  /\ call.fn = "identity"
  /\ ~call.done
  /\ call' = [call EXCEPT !.done = TRUE, !.result = IdentityOf(call)]
  /\ CallUnchanged

NextIdentity == GetIdentity

SpecIdentity == InitIdentity /\ [][NextIdentity]_vars

\* The header is absent, or none of its texts has a character that is not
\* a blank.
HeaderAbsentOrEmpty(m) ==
  \/ ~m.present
  \/ /\ SlotText(m.title) = <<>>
     /\ SlotText(m.span) = <<>>
     /\ JsTrim(m.fallback) = <<>>

IsTrimmedLabel(r) == r.kind = "label" /\ r.text # <<>> /\ Strip(r.text) = r.text

\* C24, as stated: get_active_chat_identity never raises; it returns None
\* when the URL cannot be read, the script fails or the header is absent or
\* empty, and a trimmed, non-empty label otherwise.
C24_NoneOrLabel ==
  (call.fn = "identity" /\ call.done) =>
    /\ call.result.kind # "raise"
    /\ IF ~call.urlOk \/ ~call.evalOk \/ HeaderAbsentOrEmpty(call.markup)
         THEN call.result = NoLabel
         ELSE IsTrimmedLabel(call.result)

\* The first non-empty text of the header, in the script's order.
FirstLabel(m) ==
  IF SlotText(m.title) # <<>> THEN m.title.text
  ELSE IF SlotText(m.span) # <<>> THEN m.span.text
  ELSE m.fallback

\* C24, amended: get_active_chat_identity never raises; it returns None when
\* the URL cannot be read, the host is not WhatsApp's, the script fails, the
\* header is absent or empty, or the header's first non-empty label has only
\* characters str.strip() removes; otherwise it returns that label, trimmed
\* and non-empty.
C24_NoneOrLabelOnWhatsApp ==
  (call.fn = "identity" /\ call.done) =>
    /\ call.result.kind # "raise"
    /\ IF \/ ~call.urlOk \/ call.host # WA \/ ~call.evalOk
          \/ HeaderAbsentOrEmpty(call.markup)
          \/ Strip(FirstLabel(call.markup)) = <<>>
         THEN call.result = NoLabel
         ELSE /\ IsTrimmedLabel(call.result)
              /\ call.result.text = Strip(FirstLabel(call.markup))

\* A label came back although the title element was there and blank, and it
\* was trimmed on the way.
C24_Witness ==
  /\ call.fn = "identity" /\ call.done
  /\ call.result.kind = "label"
  /\ call.markup.title.there
  /\ call.result.text # FirstLabel(call.markup)

\* ------------------------------------------------- generate_reply
\* `last_msg[:60]`
PreviewLen == 60

Preview(msg) == SubSeq(msg, 1, IF Len(msg) < PreviewLen THEN Len(msg) ELSE PreviewLen)

\* What planner.client.chat.completions.create gives: an exception, an answer
\* without content, or the content.
LlmOutcomes ==
  {[kind |-> "raise", text |-> <<>>], [kind |-> "none", text |-> <<>>]}
    \cup {[kind |-> "text", text |-> t] : t \in {<<>>, <<"a">>, <<" ", "a">>}}

GenerateInputs ==
  [fn : {"generate"}, done : {FALSE}, enabled : BOOLEAN, llm : LlmOutcomes,
   history_snippet : {<<>>, <<"s">>},
   last_msg : IncomingTexts \cup {<<>>},
   instruction : {<<>>, <<" ">>, <<"i">>},
   chat_identity : {NoLabel, Label(<<"a">>), Label(<<" ">>)},
   result : {[kind |-> "none", text |-> <<>>]}]

\* "Alles klar! " with the emoji, the text of the except branch
FallbackReply == <<"Alles klar! :)">>

\* The branch `if not planner.enabled`
TemplateReply(q) ==
  LET base == IF q.last_msg # <<>> THEN <<"Klingt gut! ">> \o Preview(q.last_msg)
              ELSE <<"Alles klar!">>
      extra == Strip(q.instruction)
      label == IF q.chat_identity.kind = "label" THEN Strip(q.chat_identity.text) ELSE <<>>
      labelled == IF label # <<>> THEN <<"[">> \o label \o <<"] ">> \o base ELSE base
  IN IF extra # <<>> THEN labelled \o <<" (">> \o extra \o <<")">> ELSE labelled

\* Mutant: the failure of the model call is not caught.
ModelReply_Uncaught(q) ==
  IF q.llm.kind = "text" THEN [kind |-> "text", text |-> Strip(q.llm.text)]
  ELSE RaisedError

\* The branch `try: ... return resp.choices[0].message.content.strip()
\* except Exception: return fallback`; content None fails at .strip()
ModelReply(q) ==
  IF q.llm.kind = "text" THEN [kind |-> "text", text |-> Strip(q.llm.text)]
  ELSE [kind |-> "text", text |-> FallbackReply]

ReplyOf(q) ==
  IF ~q.enabled THEN [kind |-> "text", text |-> TemplateReply(q)] ELSE ModelReply(q)

InitGenerate ==
  /\ InitAgent
  /\ host = WA
  /\ header = NoneVal
  /\ doc = NoDoc
  /\ found = NotRun
  /\ marks = {}
  /\ walk = NoWalk
  /\ call \in GenerateInputs

\* `reply = await generate_reply(planner, snippet, latest, "", chat_identity=...)`
GenerateReply ==
  /\ call.fn = "generate"
  /\ ~call.done
  /\ call' = [call EXCEPT !.done = TRUE, !.result = ReplyOf(call)]
  /\ CallUnchanged

NextGenerate == GenerateReply

SpecGenerate == InitGenerate /\ [][NextGenerate]_vars

\* C25: generate_reply lets no failure out: when the model call raises it
\* returns the fixed fallback text, and without a model a templated text,
\* the same for every context excerpt and model outcome; both texts are
\* non-empty, so the cycle has a reply to deliver.
C25_ReplyNeverFails ==
  (call.fn = "generate" /\ call.done) =>
    /\ call.result.kind = "text"
    /\ (call.enabled /\ call.llm.kind # "text") => call.result.text = FallbackReply
    /\ ~call.enabled =>
         /\ call.result.text # <<>>
         /\ \A snip \in {<<>>, <<"s">>}, o \in LlmOutcomes :
              ReplyOf([call EXCEPT !.history_snippet = snip, !.llm = o]) = call.result

\* The model call raised and the fallback came back.
C25_Witness ==
  /\ call.fn = "generate" /\ call.done
  /\ call.enabled
  /\ call.llm.kind = "raise"
  /\ call.result.text = FallbackReply

\* ------------------------------------------------- the conversation changes
\* The auto-responder on WhatsApp while the user opens another conversation,
\* over a stretch of time in which no full second passes: one polling cycle.
InitSwitch == Init /\ host = WA

\* A second conversation partner.
OtherChat == "Bob"

\* The user opens the conversation with n: its header, its thread and its
\* composer replace those of the conversation that was open.
EnvOpenChat(n) ==
  /\ host = WA
  /\ n # header
  /\ header' = n
  /\ thread' = EmptyThread
  /\ composer' = <<>>
  /\ UNCHANGED <<host, composerPresent, AUTO_MODE, sentVars,
                 last_seen_messages, pc, page, timer, cyc, tp, fgCount, scorerVars>>

NextSwitch ==
  \/ ToggleAuto
  \/ \E t \in IncomingTexts : EnvIncoming(t)
  \/ \E n \in HeaderNames \cup {OtherChat} : EnvOpenChat(n)
  \/ BgNext

SpecSwitch == InitSwitch /\ [][NextSwitch]_vars

\* The key of the conversation that is open now.
CurrentKey == _chat_storage_key(host, get_active_chat_identity(host, header))

\* The auto-responder puts its reply into the composer or sends it.
BgInjects ==
  /\ pc["bg"] \in {"type", "insert", "assign", "send"}
  /\ pc'["bg"] # pc["bg"]
  /\ composer' # composer \/ thread' # thread

\* C26: the reply to a message extracted under key K is injected into the
\* conversation with key K and into no other, and its Last-Sent record is
\* written under K.
C26_ScopedDispatch ==
  [][ /\ BgInjects => CurrentKey = cyc.chat_key
      /\ (RecordStep("bg") /\ tp["bg"].result = "running")
           => RecordKey("bg") = cyc.chat_key ]_vars

\* ------------------------------------------------- the command `sag`
\* gui_repl takes `sag <text>` from the queue. Its first word is none of the
\* commands, so it goes the way of natural language: compose_chat_reply with
\* the whole input as instruction and, when that gives nothing, the command
\* planner.suggest_command suggests: the stub's `tippe :: <text>` without a
\* language model, whatever the model answers with one.
FgSag(text) ==
  /\ pc["fg"] = "idle"
  /\ fgCount < MaxFgCmds
  /\ fgCount' = fgCount + 1
  /\ call' = [fn |-> "sag", text |-> text]
  /\ UNCHANGED <<doc, found, marks, walk, lockVars>>
  /\ UNCHANGED <<envVars, thread, AUTO_MODE, sentVars>>
  /\ \E reply_text \in compose_chat_reply(page["fg"], host, thread) :
       IF reply_text.status = "raise" THEN FgCrash
       ELSE IF reply_text.status = "reply" THEN TippeEnter("fg", reply_text.text)
       ELSE \/ TippeEnter("fg", Strip(text))
            \/ \E other \in FgTexts : TippeEnter("fg", Strip(other))
            \/ FgContinue

NextSag == NextFg \/ \E text \in FgTexts : FgSag(text)

SpecSag == Init /\ [][NextSag]_vars

\* `sag <text>` is taken from the queue and handled without a failure.
SagEntered == call' # call /\ call'.fn = "sag" /\ pc'["fg"] # "crashed"

\* C27: `sag <text>` does what `tippe :: <text>` does: on every host the
\* text handed to the injection is exactly <text>.
C27_SagIsTippe ==
  [][ SagEntered => /\ tp'["fg"] # tp["fg"]
                    /\ tp'["fg"].text = Strip(call'.text) ]_vars

\* ------------------------------------------------- the domain lock
\* The agent started with LOCK_TO_DOMAIN switched on.
InitLock ==
  /\ InitGlobals
  /\ LOCK_TO_DOMAIN = TRUE
  /\ _LOCK_HOST = host
  /\ doc = NoDoc
  /\ found = NotRun
  /\ marks = {}
  /\ walk = NoWalk
  /\ call = NoCall

FORCE_CHAT_MODE == FALSE

\* gui_repl takes `gehe <url>`: cmd_gehe navigates unless the chat mode or the
\* domain lock forbids it; on a page reference of None page.goto fails and
\* the REPL reports it.
FgGehe(h) ==
  /\ pc["fg"] = "idle"
  /\ fgCount < MaxFgCmds
  /\ fgCount' = fgCount + 1
  /\ IF FORCE_CHAT_MODE \/ LOCK_TO_DOMAIN \/ page["fg"] = NoneVal
       THEN UNCHANGED <<envVars, composer, thread>>
       ELSE /\ host' = h
            /\ header' = NoneVal
            /\ composerPresent' = TRUE
            /\ composer' = <<>>
            /\ thread' = EmptyThread
  /\ UNCHANGED <<AUTO_MODE, sentVars, last_seen_messages,
                 pc, page, timer, cyc, tp, scorerVars>>

NextLock == NextFg \/ \E h \in Hosts : FgGehe(h)

SpecLock == InitLock /\ [][NextLock]_vars

\* Task t puts text into the composer of the front page or sends it.
Injects(t) ==
  /\ pc[t] \in {"type", "insert", "assign", "send"}
  /\ pc'[t] # pc[t]
  /\ composer' # composer \/ thread' # thread

\* C28: with the domain lock on, no command navigates to another host and
\* none types into a page whose host is not the locked host.
C28_DomainLock ==
  [][ LOCK_TO_DOMAIN =>
        /\ (fgCount' # fgCount) => host' = host
        /\ \A t \in Tasks : Injects(t) => host = _LOCK_HOST ]_vars

\* ------------------------------------------------- _chat_storage_key
\* Hosts and identities as texts: upper and lower case, blanks, or None.
KeyTexts == {NoLabel} \cup {Label(t) : t \in SeqsUpTo({"s", "S", " "}, MaxLabelLen)}

KeyInputs ==
  [fn : {"key"}, done : {FALSE}, host : KeyTexts, identity : KeyTexts,
   result : {NoLabel}, next : {"none"}]

\* `(x or "")`
OrEmpty(x) == IF x.kind = "label" THEN x.text ELSE <<>>

\* Mutant: the host is not lower-cased.
KeyHost_AsTyped(h) == Strip(OrEmpty(h))

\* `host = (host or "").strip().lower()`
KeyHost(h) == ToLower(Strip(OrEmpty(h)))

\* `identity = (identity or "").strip()`
KeyIdentity(i) == Strip(OrEmpty(i))

\* _chat_storage_key on texts
ChatKeyOf(h, i) ==
  IF KeyHost(h) = <<>> THEN NoLabel
  ELSE IF KeyIdentity(i) # <<>> THEN Label(KeyHost(h) \o <<":", ":">> \o KeyIdentity(i))
  ELSE Label(KeyHost(h))

InitKey ==
  /\ InitAgent
  /\ host = WA
  /\ header = NoneVal
  /\ doc = NoDoc
  /\ found = NotRun
  /\ marks = {}
  /\ walk = NoWalk
  /\ call \in KeyInputs

\* The polling cycle on a host that AUTO_DOMAINS enables:
\* `chat_key = _chat_storage_key(host, chat_identity)`, then
\* `if not chat_key: sleep; continue`, else the extraction.
ResolveKey ==
  /\ call.fn = "key"
  /\ ~call.done
  /\ LET chat_key == ChatKeyOf(call.host, call.identity)
     IN call' = [call EXCEPT !.done = TRUE, !.result = chat_key,
                             !.next = IF chat_key.kind = "none" THEN "sleep"
                                      ELSE "extract"]
  /\ CallUnchanged

NextKey == ResolveKey

SpecKey == InitKey /\ [][NextKey]_vars

AllBlank(t) == \A i \in 1..Len(t) : IsSpace(t[i])

\* C29: _chat_storage_key gives no key exactly when the trimmed host is
\* empty; otherwise the trimmed host in lower case, alone when the identity
\* is absent or blank and followed by "::" and the trimmed identity when it
\* is not; a cycle without a key goes to sleep without extracting.
C29_KeyDerivation ==
  (call.fn = "key" /\ call.done) =>
    LET h == OrEmpty(call.host)
        i == OrEmpty(call.identity)
        key == call.result
    IN /\ key.kind = "none" <=> AllBlank(h)
       /\ key.kind = "none" => call.next = "sleep"
       /\ key.kind # "none" =>
            /\ call.next = "extract"
            /\ SubSeq(key.text, 1, Len(Strip(h))) = ToLower(Strip(h))
            /\ IF AllBlank(i) THEN Len(key.text) = Len(Strip(h))
               ELSE SubSeq(key.text, Len(Strip(h)) + 1, Len(key.text))
                      = <<":", ":">> \o Strip(i)

\* A host with capitals and blanks around it and an identity with blanks
\* gave a key with both parts.
C29_Witness ==
  /\ call.fn = "key" /\ call.done
  /\ call.host = Label(<<" ", "S">>)
  /\ call.identity = Label(<<"S", " ">>)
  /\ call.result = Label(<<"s", ":", ":", "S">>)

\* ---------------------------------------------------------------------
\* One conversation whose header name is readable in some polling cycles
\* and not in others (auto_responder_loop, the key of
\* _last_seen_messages).
\* ---------------------------------------------------------------------

\* The agent attached to WhatsApp Web with one conversation open.
InitFlicker == Init /\ host = WA

\* The one incoming message of the conversation: nothing arrives after it,
\* so the latest incoming text stays what it is.
FirstIncoming(t) == thread = EmptyThread /\ EnvIncoming(t)

\* Time, the switch, the one message, the header name appearing and
\* disappearing, and the polling loop.
NextFlicker ==
  \/ Tick
  \/ ToggleAuto
  \/ \E t \in IncomingTexts : FirstIncoming(t)
  \/ \E n \in HeaderNames \cup {NoneVal} : EnvHeader(n)
  \/ BgNext

SpecFlicker == InitFlicker /\ [][NextFlicker]_vars

\* A step of the polling loop that sends a typed reply into the thread.
BgDelivers ==
  /\ pc["bg"] = "send"
  /\ pc'["bg"] # "send"
  /\ composer # <<>>
  /\ composer' = <<>>
  /\ thread'.lastAuthor = "me"

\* C30: for one open conversation whose latest incoming text stays
\* unchanged, at most one reply is sent, whether or not the header name
\* could be read in each cycle: the polling loop never sends a reply into a
\* thread whose last message already is the agent's own.
C30_OneReplyPerMessage ==
  [][ BgDelivers => thread.lastAuthor # "me" ]_vars

\* ------------------------------------------------- negative scores
\* Every candidate of every frame scores below zero.
AllNegative(d) == \A c \in Candidates(d) : ScoreOf(d, c) < 0

MaxWrappers == 2

\* No send affordance anywhere in the enclosing form, footer or section.
NoSend == 0 - 1

\* Where a candidate sits: inside `wrappers` nested divs inside a form, footer
\* or section. sendDepth is the number of levels above the candidate at which
\* the send affordance (button[aria-label*='send' i], button[type='submit'],
\* [data-testid*='send' i]) is first a descendant: 0 inside the candidate,
\* 1..wrappers inside that wrapper (counted from the innermost),
\* wrappers + 1 inside the form only.
Layouts ==
  {[wrappers |-> w, sendDepth |-> s] :
     <<w, s>> \in {p \in (0..MaxWrappers) \X (NoSend..(MaxWrappers + 1)) :
                     p[2] <= p[1] + 1}}

\* The candidates that are scored: shown, and matched by `selectors`.
ScoredElements == {e \in Elements : isVisible(e) /\ IsCandidate(e)}

ScoreInputs ==
  {[fn |-> "score", el |-> e, layout |-> l, done |-> FALSE, result |-> 0, bare |-> 0] :
     e \in ScoredElements, l \in Layouts}

\* const container = el.closest('form, footer, section, div');
\* container.querySelector("button[aria-label*='send' i], ...")
\* closest() starts at the element: a div candidate is its own container,
\* any other candidate gets its parent, the innermost wrapper div or, without
\* wrappers, the form. querySelector finds the affordance when it is a
\* descendant of that container.
Placed(el, layout) ==
  [el EXCEPT !.sendInside = (layout.sendDepth = 0),
             !.sendNearby = (layout.sendDepth # NoSend /\ layout.sendDepth <= 1)]

InitColocate ==
  /\ InitAgent
  /\ host = EXAMPLE
  /\ header = NoneVal
  /\ doc = NoDoc
  /\ found = NotRun
  /\ marks = {}
  /\ walk = NoWalk
  /\ call \in ScoreInputs

\* scoreEl on the candidate in its layout, and on the same candidate in the
\* same layout without the send affordance.
ScoreCandidate ==
  /\ call.fn = "score"
  /\ ~call.done
  /\ call' = [call EXCEPT
                !.done = TRUE,
                !.result = scoreEl(Placed(call.el, call.layout)),
                !.bare = scoreEl(Placed(call.el, [call.layout EXCEPT !.sendDepth = NoSend]))]
  /\ CallUnchanged

NextColocate == ScoreCandidate

SpecColocate == InitColocate /\ [][NextColocate]_vars

\* C32: a candidate whose enclosing form, footer or section also contains a
\* send affordance scores exactly 30 more than the same candidate without
\* it, for every candidate tag, a contenteditable div included, and for
\* candidates inside intermediate div wrappers.
C32_ColocationBonus ==
  (call.fn = "score" /\ call.done /\ call.layout.sendDepth # NoSend) =>
    call.result = call.bare + 30

\* ------------------------------------------------- _maybe_auto_send
\* A host name that holds both names the function looks for with `in`.
WA_ON_BUMBLE == "web.whatsapp.com.bumble.com"

SendCallHosts == {WA, BUMBLE, EXAMPLE, WA_ON_BUMBLE}

\* `"web.whatsapp.com" in host`, `"bumble.com" in host`
HostContains(h, name) == h = name \/ (h = WA_ON_BUMBLE /\ name \in {WA, BUMBLE})

\* One send action and whether it went through (it raises when it does not).
Press(ok) == [action |-> "enter", ok |-> ok]
Click(ok) == [action |-> "click", ok |-> ok]

\* Mutant: the `return` after the Enter press is missing.
SendBlock_NoReturn(enterOk, clickOk) ==
  [attempts |-> <<Press(enterOk), Click(clickOk)>>,
   returned |-> clickOk,
   raised |-> FALSE]

\* One host's block: try press Enter / return / except pass, then
\* try click / return / except print.
SendBlock(enterOk, clickOk) ==
  [attempts |-> IF enterOk THEN <<Press(TRUE)>> ELSE <<Press(FALSE), Click(clickOk)>>,
   returned |-> enterOk \/ clickOk,
   raised |-> FALSE]

NoAttempts == [attempts |-> <<>>, returned |-> FALSE, raised |-> FALSE]

\* The WhatsApp block, then, unless it returned, the Bumble block.
SendActions(h, o) ==
  LET wa == IF HostContains(h, WA) THEN SendBlock(o.waEnter, o.waClick) ELSE NoAttempts
      bu == IF HostContains(h, BUMBLE) THEN SendBlock(o.buEnter, o.buClick) ELSE NoAttempts
  IN IF ~AUTO_SEND THEN NoAttempts
     ELSE IF wa.returned \/ wa.raised THEN wa
     ELSE [attempts |-> wa.attempts \o bu.attempts,
           returned |-> bu.returned,
           raised |-> bu.raised]

SendInputs ==
  {[fn |-> "send", host |-> h, done |-> FALSE, result |-> NoAttempts,
    outcomes |-> [waEnter |-> a, waClick |-> b, buEnter |-> c, buClick |-> d]] :
     h \in SendCallHosts, a \in BOOLEAN, b \in BOOLEAN, c \in BOOLEAN, d \in BOOLEAN}

InitSend ==
  /\ InitAgent
  /\ host = EXAMPLE
  /\ header = NoneVal
  /\ doc = NoDoc
  /\ found = NotRun
  /\ marks = {}
  /\ walk = NoWalk
  /\ call \in SendInputs

\* cmd_tippe's `await _maybe_auto_send(page)` after a verified injection
AutoSend ==
  /\ call.fn = "send"
  /\ ~call.done
  /\ call' = [call EXCEPT !.done = TRUE,
                          !.result = SendActions(call.host, call.outcomes)]
  /\ CallUnchanged

NextSend == AutoSend

SpecSend == InitSend /\ [][NextSend]_vars

\* C33: after a verified injection on a host with a send strategy the Enter
\* press is attempted first, the click on the send button is attempted only
\* right after an Enter press that raised, at most one send action succeeds,
\* and a failure of both raises nothing to the caller.
C33_SendOrder ==
  (call.fn = "send" /\ call.done) =>
    LET a == call.result.attempts
    IN /\ (HostContains(call.host, WA) \/ HostContains(call.host, BUMBLE))
            => (a # <<>> /\ a[1].action = "enter")
       /\ \A i \in 1..Len(a) :
            a[i].action = "click" => (i > 1 /\ a[i - 1] = Press(FALSE))
       /\ Cardinality({i \in 1..Len(a) : a[i].ok}) <= 1
       /\ \A i \in 1..Len(a) : a[i].ok => i = Len(a)
       /\ ~call.result.raised

\* On WhatsApp Web the Enter press and the click both failed.
C33_Witness ==
  /\ call.fn = "send"
  /\ call.done
  /\ call.host = WA
  /\ call.result.attempts = <<Press(FALSE), Click(FALSE)>>
  /\ ~call.result.raised

\* ------------------------------------------------- what a verified injection leaves
\* cmd_tippe reports success (`Text geschrieben.`) and goes on to send.
ReportsSuccess(t) == pc[t] # "send" /\ pc'[t] = "send"

\* C34: whenever cmd_tippe reports success for a payload, the composer holds
\* that payload (after whitespace normalization), inserted exactly once, also
\* when an earlier strategy inserted the text but its read-back failed.
C34_ExactlyOnce ==
  [][ \A t \in Tasks :
        ReportsSuccess(t) => _normalize(composer') = _normalize(tp'[t].text) ]_vars

\* ------------------------------------------------- a poll between send and record
\* Both tasks on Bumble, where the extraction returns the last bubble
\* whoever wrote it.
InitEcho ==
  /\ Init
  /\ host = BUMBLE

NextEcho ==
  \/ FgNext
  \/ BgNext
  \/ ToggleAuto

SpecEcho == InitEcho /\ [][NextEcho]_vars

\* cmd_tippe of the foreground has triggered the send action and has not
\* yet written its record: it is inside `await get_active_chat_identity`.
FgRecordPending == pc["fg"] = "record" /\ Delivered(tp["fg"].sent)

\* The polling cycle evaluates its echo guard in this step.
EchoCheckRuns ==
  /\ pc["bg"] = "extract"
  /\ pc'["bg"] # "extract"
  /\ cyc'.outcome \in {"echo", "reply"}

\* C35: between a foreground send action and the write of its Last-Sent
\* record no polling cycle runs its echo check for that conversation, and
\* none dispatches a reply to the text that was just sent.
C35_EchoRecordTiming ==
  [][ FgRecordPending =>
        /\ ~EchoCheckRuns
        /\ ~(EchoCheckRuns /\ cyc'.outcome = "reply"
               /\ cyc'.latest = Strip(tp["fg"].text)) ]_vars

\* ------------------------------------------------- the empty payload
\* cmd_tippe is at work on a payload that normalizes to the empty string.
EmptyPayload(t) == InTippe(t) /\ _normalize(tp[t].text) = <<>>

\* C36: cmd_tippe with a payload that normalizes to the empty string
\* triggers no auto-send action and writes no Last-Sent record.
C36_EmptyNeverSent ==
  [][ \A t \in Tasks :
        EmptyPayload(t) =>
          /\ pc'[t] \notin {"send", "record"}
          /\ tp'[t].sent = "none"
          /\ ~WritesLastSent(t) ]_vars

\* ------------------------------------------------- the REPL's page after a failure
\* C37: after a foreground tippe or AI-reply command that ended with
\* 'no element found' / 'no input field found', the REPL still holds a
\* usable page for the commands that follow.
C37_UsablePageAfterNotFound ==
  (pc["fg"] = "idle" /\ tp["fg"].result = "notfound") => page["fg"] # NoneVal

====
